---- MODULE Spec2Model ----
(***************************************************************************)
(* Verification model of the SAN3 Producer pattern engine:                 *)
(*   modes/pattern_catalog.py  - fingerprint registry (register, _load,    *)
(*                               _save, _fingerprint)                      *)
(*   modes/drum_gen.py         - ambient-random drum generator and run()   *)
(*   modes/melody_gen.py       - ambient-random melody generator and run() *)
(*   modes/generator.py        - seeded generator with GEN-nnnn history    *)
(*   app.py                    - worker threads, workspace guard           *)
(*                                                                         *)
(* Numbers that are floats in the source (beats, durations) are integers   *)
(* in units of 1/10000 beat, so that round(x, 3) is a real operation.      *)
(* Probabilities are per-mille integers; one random draw is an integer in  *)
(* 0..999.                                                                 *)
(***************************************************************************)
EXTENDS Integers, Sequences, FiniteSets, TLC

\* ------------------------------------------------------------------------
\* Bounds of the model
\* ------------------------------------------------------------------------
MaxRuns == 3

\* The number of clicks in a session of the GUI
MaxClicks == 2

\* ------------------------------------------------------------------------
\* Small helpers on sequences and numbers
\* ------------------------------------------------------------------------
\* One beat, in model units: one decimal digit more than round(x, 3) keeps.
Unit == 10 * 1000

Min2(a, b) == IF a < b THEN a ELSE b

Max2(a, b) == IF a > b THEN a ELSE b

Range(s) == { s[i] : i \in 1..Len(s) }

RemoveAt(s, k) == [ i \in 1..(Len(s) - 1) |-> IF i < k THEN s[i] ELSE s[i + 1] ]

FilterOut(s, bad) == SelectSeq(s, LAMBDA x : x \notin bad)

\* ------------------------------------------------------------------------
\* Random source.  A source is a record [prefix, seed]: the first
\* Len(prefix) draws are given explicitly, every later draw is a fixed
\* function of (seed, position).  random.Random(seed) is the source with an
\* empty prefix; the ambient generator is an arbitrary source.
\* ------------------------------------------------------------------------
Draw(r, i) ==
    IF i < Len(r.prefix) THEN r.prefix[i + 1]
    ELSE (((r.seed + 3) * 7919 + (i + 1) * 6151 + (r.seed + i) * (r.seed + i) * 13) % 1009) % 1000

\* random.randint(a, b), inclusive on both ends
RandInt(r, i, a, b) == a + (Draw(r, i) * (b - a + 1)) \div 1000

\* random.random() < p, with p in per mille
Chance(r, i, permille) == Draw(r, i) < permille

\* random.sample(pool, k): k distinct elements, in the order drawn; uses the
\* draws at positions i .. i+k-1
RECURSIVE Sample(_, _, _, _)
Sample(pool, k, r, i) ==
    IF k = 0 \/ Len(pool) = 0 THEN << >>
    ELSE LET idx == RandInt(r, i, 1, Len(pool))
         IN  << pool[idx] >> \o Sample(RemoveAt(pool, idx), k - 1, r, i + 1)

\* ------------------------------------------------------------------------
\* drum_gen.py: GM map and genre DNA
\* ------------------------------------------------------------------------
GM == [ kick |-> 36, snare |-> 38, ghost |-> 38, clap |-> 39,
        hihat_cl |-> 42, hihat_op |-> 46, hihat_ped |-> 44, rim |-> 37,
        snap |-> 39, shaker |-> 70, tom_hi |-> 50, tom_lo |-> 45, ride |-> 51 ]

NoAccent == [ present |-> FALSE, chance |-> 0, steps |-> << >>, velocity |-> <<1, 1>> ]

GENRE_DNA ==
  ( "trap" :>
      [ kick  |-> [ mandatory |-> <<0, 8>>, variable |-> <<2, 3, 10, 11, 13, 14, 15>>,
                    variable_count |-> <<2, 4>>, velocity_main |-> <<100, 115>>,
                    velocity_var |-> <<65, 90>> ],
        snare |-> [ mandatory |-> <<4, 12>>, clap_stack |-> TRUE, ghost_chance |-> 400,
                    ghost_steps |-> <<2, 6, 10, 14, 15>>, velocity_main |-> <<95, 105>>,
                    velocity_ghost |-> <<28, 45>> ],
        hihat |-> [ pattern |-> "16th_rolling", open_steps |-> <<5, 13>>, open_chance |-> 700,
                    vel_accent_steps |-> <<0, 4, 8, 12>>, vel_accent |-> <<95, 110>>,
                    vel_normal |-> <<55, 85>> ],
        rim |-> NoAccent, shaker |-> NoAccent ] ) @@
  ( "drill" :>
      [ kick  |-> [ mandatory |-> <<0>>, variable |-> <<2, 3, 5, 6, 8, 9, 10, 11, 13, 14, 15>>,
                    variable_count |-> <<4, 7>>, velocity_main |-> <<105, 115>>,
                    velocity_var |-> <<55, 80>> ],
        snare |-> [ mandatory |-> <<4, 12>>, clap_stack |-> FALSE, ghost_chance |-> 200,
                    ghost_steps |-> <<6, 14>>, velocity_main |-> <<90, 100>>,
                    velocity_ghost |-> <<30, 45>> ],
        hihat |-> [ pattern |-> "16th_sliding", open_steps |-> <<3, 7, 11, 15>>, open_chance |-> 800,
                    vel_accent_steps |-> <<0, 8>>, vel_accent |-> <<100, 110>>,
                    vel_normal |-> <<45, 70>> ],
        rim |-> NoAccent, shaker |-> NoAccent ] ) @@
  ( "hip hop" :>
      [ kick  |-> [ mandatory |-> <<0>>, variable |-> <<2, 3, 8, 10, 11, 14>>,
                    variable_count |-> <<2, 3>>, velocity_main |-> <<100, 115>>,
                    velocity_var |-> <<70, 90>> ],
        snare |-> [ mandatory |-> <<4, 12>>, clap_stack |-> FALSE, ghost_chance |-> 550,
                    ghost_steps |-> <<1, 3, 6, 9, 14, 15>>, velocity_main |-> <<95, 110>>,
                    velocity_ghost |-> <<32, 50>> ],
        hihat |-> [ pattern |-> "8th_swing", open_steps |-> <<6, 14>>, open_chance |-> 650,
                    vel_accent_steps |-> <<0, 4, 8, 12>>, vel_accent |-> <<85, 95>>,
                    vel_normal |-> <<55, 75>> ],
        rim |-> [ present |-> TRUE, chance |-> 500, steps |-> <<2, 6, 10, 14>>,
                  velocity |-> <<35, 50>> ],
        shaker |-> NoAccent ] ) @@
  ( "rnb" :>
      [ kick  |-> [ mandatory |-> <<0>>, variable |-> <<3, 5, 8, 10, 11>>,
                    variable_count |-> <<1, 3>>, velocity_main |-> <<88, 100>>,
                    velocity_var |-> <<55, 75>> ],
        snare |-> [ mandatory |-> <<4, 12>>, clap_stack |-> FALSE, ghost_chance |-> 300,
                    ghost_steps |-> <<3, 7, 11, 15>>, velocity_main |-> <<80, 95>>,
                    velocity_ghost |-> <<28, 42>> ],
        hihat |-> [ pattern |-> "sparse", open_steps |-> <<6, 14>>, open_chance |-> 600,
                    vel_accent_steps |-> <<0, 8>>, vel_accent |-> <<70, 82>>,
                    vel_normal |-> <<50, 68>> ],
        rim |-> NoAccent,
        shaker |-> [ present |-> TRUE, chance |-> 600, steps |-> <<2, 6, 10, 14>>,
                     velocity |-> <<42, 58>> ] ] ) @@
  ( "melodic" :>
      [ kick  |-> [ mandatory |-> <<0, 8>>, variable |-> <<3, 5, 7, 11, 13, 15>>,
                    variable_count |-> <<2, 3>>, velocity_main |-> <<100, 112>>,
                    velocity_var |-> <<60, 80>> ],
        snare |-> [ mandatory |-> <<4, 12>>, clap_stack |-> TRUE, ghost_chance |-> 350,
                    ghost_steps |-> <<2, 6, 10, 14, 15>>, velocity_main |-> <<90, 102>>,
                    velocity_ghost |-> <<30, 45>> ],
        hihat |-> [ pattern |-> "8th_open", open_steps |-> <<2, 6, 10, 14>>, open_chance |-> 750,
                    vel_accent_steps |-> <<0, 4, 8, 12>>, vel_accent |-> <<82, 95>>,
                    vel_normal |-> <<55, 75>> ],
        rim |-> NoAccent, shaker |-> NoAccent ] )

\* ------------------------------------------------------------------------
\* drum_gen.py: the generator.  Every piece takes the random source r and
\* the position pos of its first draw, and returns [hits, pos] with the
\* position after its last draw.  A hit is <<step, instrument, velocity>>.
\* ------------------------------------------------------------------------

\* A faulty variant of HitsWithVel: the hits are put one bar later
HitsWithVelShifted(steps, offset, inst, range, r, pos) ==
    [ i \in 1..Len(steps) |->
        << steps[i] + offset + 16, inst, RandInt(r, pos + i - 1, range[1], range[2]) >> ]

\* for step in steps: vel = randint(*range); hits.append((step + offset, inst, vel))
HitsWithVel(steps, offset, inst, range, r, pos) ==
    [ i \in 1..Len(steps) |->
        << steps[i] + offset, inst, RandInt(r, pos + i - 1, range[1], range[2]) >> ]

\* _gen_kick, the pool of the variable kicks of a bar: pool = cfg["variable"][:],
\* and if bar == 1: pool = [s for s in pool if s not in [1, 9]]
KickPool(cfg, bar) == IF bar = 1 THEN FilterOut(cfg.variable, {1, 9}) ELSE cfg.variable

gen_kick(cfg, offset, bar, r, pos) ==
    LET nm     == Len(cfg.mandatory)
        main   == HitsWithVel(cfg.mandatory, offset, "kick", cfg.velocity_main, r, pos)
        count  == RandInt(r, pos + nm, cfg.variable_count[1], cfg.variable_count[2])
        pool   == KickPool(cfg, bar)
        k      == Min2(count, Len(pool))
        chosen == Sample(pool, k, r, pos + nm + 1)
        var    == HitsWithVel(chosen, offset, "kick", cfg.velocity_var, r, pos + nm + 1 + k)
    IN  [ hits |-> main \o var, pos |-> pos + nm + 1 + k + k ]

\* The mandatory snares, each followed by its stacked clap when clap_stack
RECURSIVE SnareMain(_, _, _, _, _)
SnareMain(cfg, steps, offset, r, pos) ==
    IF steps = << >> THEN [ hits |-> << >>, pos |-> pos ]
    ELSE LET vel  == RandInt(r, pos, cfg.velocity_main[1], cfg.velocity_main[2])
             clap == Max2(vel - RandInt(r, pos + 1, 5, 12), 70)
             used == IF cfg.clap_stack THEN 2 ELSE 1
             here == IF cfg.clap_stack
                     THEN << <<steps[1] + offset, "snare", vel>>, <<steps[1] + offset, "clap", clap>> >>
                     ELSE << <<steps[1] + offset, "snare", vel>> >>
             rest == SnareMain(cfg, Tail(steps), offset, r, pos + used)
         IN  [ hits |-> here \o rest.hits, pos |-> rest.pos ]

gen_snare(cfg, offset, bar, r, pos) ==
    LET main  == SnareMain(cfg, cfg.mandatory, offset, r, pos)
        p1    == main.pos
        ghost == Chance(r, p1, cfg.ghost_chance)
        pool  == FilterOut(cfg.ghost_steps, Range(cfg.mandatory))
        count == RandInt(r, p1 + 1, 1, Min2(3, Len(pool)))
        steps == Sample(pool, count, r, p1 + 2)
        gh    == HitsWithVel(steps, offset, "ghost", cfg.velocity_ghost, r, p1 + 2 + count)
    IN  IF ghost THEN [ hits |-> main.hits \o gh, pos |-> p1 + 2 + count + count ]
        ELSE [ hits |-> main.hits, pos |-> p1 + 1 ]

\* sorted(set(steps)) for steps in 0..15
SortedSteps(S) == SelectSeq([ i \in 1..16 |-> i - 1 ], LAMBDA x : x \in S)

Eighths == <<0, 2, 4, 6, 8, 10, 12, 14>>

\* The steps the hi-hat plays in one bar, and the draws spent choosing them
HihatSteps(cfg, r, pos) ==
    LET pat == cfg.pattern
    IN  IF pat \in {"16th_rolling", "16th_sliding"}
        THEN [ steps |-> [ i \in 1..16 |-> i - 1 ], pos |-> pos ]
        ELSE IF pat = "8th_swing"
        THEN LET n  == RandInt(r, pos, 2, 5)
                 ex == Sample(<<1, 3, 5, 7, 9, 11, 13, 15>>, n, r, pos + 1)
             IN  [ steps |-> SortedSteps(Range(Eighths) \cup Range(ex)), pos |-> pos + 1 + n ]
        ELSE IF pat = "sparse"
        THEN LET base   == cfg.vel_accent_steps
                 extras == FilterOut([ i \in 1..16 |-> i - 1 ], Range(base))
                 n      == RandInt(r, pos, 2, 4)
                 ex     == Sample(extras, n, r, pos + 1)
             IN  [ steps |-> SortedSteps(Range(base) \cup Range(ex)), pos |-> pos + 1 + n ]
        ELSE [ steps |-> Eighths, pos |-> pos ]

\* The loop over the hi-hat steps: open/closed roll, then the velocity
RECURSIVE HihatHits(_, _, _, _, _)
HihatHits(cfg, steps, offset, r, pos) ==
    IF steps = << >> THEN [ hits |-> << >>, pos |-> pos ]
    ELSE LET step    == steps[1]
             cand    == step \in Range(cfg.open_steps)
             is_open == cand /\ Chance(r, pos, cfg.open_chance)
             p1      == IF cand THEN pos + 1 ELSE pos
             inst    == IF is_open THEN "hihat_op" ELSE "hihat_cl"
             accent  == step \in Range(cfg.vel_accent_steps)
             vel     == IF accent
                        THEN RandInt(r, p1, cfg.vel_accent[1], cfg.vel_accent[2])
                        ELSE Max2(35, RandInt(r, p1, cfg.vel_normal[1], cfg.vel_normal[2])
                                      + RandInt(r, p1 + 1, -8, 8))
             p2      == IF accent THEN p1 + 1 ELSE p1 + 2
             rest    == HihatHits(cfg, Tail(steps), offset, r, p2)
         IN  [ hits |-> << <<step + offset, inst, vel>> >> \o rest.hits, pos |-> rest.pos ]

gen_hihat(cfg, offset, bar, r, pos) ==
    LET st == HihatSteps(cfg, r, pos)
    IN  HihatHits(cfg, st.steps, offset, r, st.pos)

RECURSIVE AccentHits(_, _, _, _, _, _)
AccentHits(cfg, steps, offset, inst, r, pos) ==
    IF steps = << >> THEN [ hits |-> << >>, pos |-> pos ]
    ELSE LET place == Chance(r, pos, 700)
             vel   == RandInt(r, pos + 1, cfg.velocity[1], cfg.velocity[2])
             rest  == AccentHits(cfg, Tail(steps), offset, inst, r, IF place THEN pos + 2 ELSE pos + 1)
         IN  [ hits |-> (IF place THEN << <<steps[1] + offset, inst, vel>> >> ELSE << >>) \o rest.hits,
               pos  |-> rest.pos ]

\* if "<layer>" in dna and random.random() < dna["<layer>"]["chance"]: hits += _gen_accent(...)
AccentLayer(cfg, offset, inst, r, pos) ==
    IF ~cfg.present THEN [ hits |-> << >>, pos |-> pos ]
    ELSE IF Chance(r, pos, cfg.chance) THEN AccentHits(cfg, cfg.steps, offset, inst, r, pos + 1)
    ELSE [ hits |-> << >>, pos |-> pos + 1 ]

\* One pass of the loop "for bar in range(...)" of generate
DrumBar(dna, bar, r, pos) ==
    LET offset == bar * 16
        k == gen_kick(dna.kick, offset, bar, r, pos)
        s == gen_snare(dna.snare, offset, bar, r, k.pos)
        h == gen_hihat(dna.hihat, offset, bar, r, s.pos)
        m == AccentLayer(dna.rim, offset, "rim", r, h.pos)
        a == AccentLayer(dna.shaker, offset, "shaker", r, m.pos)
    IN  [ hits |-> k.hits \o s.hits \o h.hits \o m.hits \o a.hits, pos |-> a.pos ]

\* sorted(hits, key=lambda x: x[0]) and list.sort(key=lambda x: x[0]): a
\* stable sort on the first component; the element at place i goes to the
\* place counted by the elements that come before it
SortByKey(s) ==
    LET Place(i) == Cardinality({ j \in 1..Len(s) :
                        s[j][1] < s[i][1] \/ (s[j][1] = s[i][1] /\ j <= i) })
    IN  [ p \in 1..Len(s) |-> s[CHOOSE i \in 1..Len(s) : Place(i) = p] ]

\* A faulty variant of generate: the second bar is left empty
GenerateOneBar(genre, r) ==
    SortByKey(DrumBar(IF genre \in DOMAIN GENRE_DNA THEN GENRE_DNA[genre] ELSE GENRE_DNA["trap"],
                      0, r, 0).hits)

\* drum_gen.generate(genre) with the ambient random source r
generate(genre, r) ==
    LET dna == IF genre \in DOMAIN GENRE_DNA THEN GENRE_DNA[genre] ELSE GENRE_DNA["trap"]
        b0  == DrumBar(dna, 0, r, 0)
        b1  == DrumBar(dna, 1, r, b0.pos)
    IN  SortByKey(b0.hits \o b1.hits)

\* _hits_to_notes: a note is <<time, pitch, duration, velocity>>
hits_to_notes(hits) ==
    [ i \in 1..Len(hits) |-> << hits[i][1] * Unit, (IF hits[i][2] \in DOMAIN GM THEN GM[hits[i][2]] ELSE 38), Unit \div 5, hits[i][3] >> ]

\* ------------------------------------------------------------------------
\* melody_gen.py: theory tables and genre DNA
\* ------------------------------------------------------------------------
ALL_NOTES == << "C", "C#", "D", "D#", "E", "F", "F#", "G", "G#", "A", "A#", "B" >>

\* NOTES = {n: 60 + i for i, n in enumerate(ALL_NOTES)}
NOTES == [ n \in Range(ALL_NOTES) |-> 59 + (CHOOSE i \in 1..Len(ALL_NOTES) : ALL_NOTES[i] = n) ]

SCALES == [ minor      |-> <<0, 2, 3, 5, 7, 8, 10>>,
            minor_pent |-> <<0, 3, 5, 7, 10>>,
            dorian     |-> <<0, 2, 3, 5, 7, 9, 10>>,
            chromatic  |-> <<0, 2, 3, 5, 7, 8, 11>> ]

\* Durations are in model units: 0.25 beat = 2500
MELODY_DNA ==
  ( "trap" :>
      [ note_count |-> <<7, 12>>, duration_pool |-> <<2500, 5000, 7500, 10000, 15000, 20000>>,
        duration_weights |-> <<10, 25, 15, 25, 15, 10>>, velocity_base |-> 90, velocity_var |-> 15,
        rest_chance |-> 250, contour |-> "descending", repeat_note_chance |-> 200,
        long_note_chance |-> 300 ] ) @@
  ( "drill" :>
      [ note_count |-> <<10, 16>>, duration_pool |-> <<2500, 2500, 5000, 7500>>,
        duration_weights |-> <<30, 30, 25, 15>>, velocity_base |-> 88, velocity_var |-> 12,
        rest_chance |-> 150, contour |-> "flat", repeat_note_chance |-> 350,
        long_note_chance |-> 100 ] ) @@
  ( "hip hop" :>
      [ note_count |-> <<8, 12>>, duration_pool |-> <<5000, 7500, 10000, 15000>>,
        duration_weights |-> <<20, 25, 35, 20>>, velocity_base |-> 85, velocity_var |-> 12,
        rest_chance |-> 200, contour |-> "arch", repeat_note_chance |-> 150,
        long_note_chance |-> 300 ] ) @@
  ( "rnb" :>
      [ note_count |-> <<6, 10>>, duration_pool |-> <<5000, 7500, 10000, 15000, 20000>>,
        duration_weights |-> <<15, 20, 30, 25, 10>>, velocity_base |-> 82, velocity_var |-> 10,
        rest_chance |-> 300, contour |-> "arch", repeat_note_chance |-> 100,
        long_note_chance |-> 400 ] ) @@
  ( "melodic" :>
      [ note_count |-> <<8, 14>>, duration_pool |-> <<2500, 5000, 7500, 10000, 15000, 20000>>,
        duration_weights |-> <<10, 20, 20, 25, 15, 10>>, velocity_base |-> 90, velocity_var |-> 12,
        rest_chance |-> 200, contour |-> "rising", repeat_note_chance |-> 100,
        long_note_chance |-> 350 ] )

\* A faulty variant of _build_scale: every semitone from the root up
BuildScaleSemitones(root, intervals, octaves) ==
    [ j \in 1..(octaves * Len(intervals)) |-> root + j - 1 ]

\* SCALES.get(scale, SCALES["minor"])
SelectedIntervals(scale) == IF scale \in DOMAIN SCALES THEN SCALES[scale] ELSE SCALES["minor"]

\* _build_scale(root, intervals, octaves)
build_scale(root, intervals, octaves) ==
    [ j \in 1..(octaves * Len(intervals)) |->
        root + intervals[((j - 1) % Len(intervals)) + 1] + ((j - 1) \div Len(intervals)) * 12 ]

\* s.index(x): the first position of x, counted from 0
IndexOf(s, x) == (CHOOSE i \in 1..Len(s) : s[i] = x /\ \A j \in 1..(i - 1) : s[j] # x) - 1

\* round(x, 3) of a value in model units (nearest 1/1000, ties to even)
Round3(x) ==
    LET q == x \div 10
        m == x % 10
    IN  IF m < 5 THEN 10 * q
        ELSE IF m > 5 THEN 10 * (q + 1)
        ELSE IF q % 2 = 0 THEN 10 * q ELSE 10 * (q + 1)

RECURSIVE SumTo(_, _)
SumTo(w, j) == IF j = 0 THEN 0 ELSE w[j] + SumTo(w, j - 1)

\* random.choices(pool, weights=w)[0]: bisect of random() * total in the
\* cumulative weights; one draw
WeightedChoice(pool, w, r, i) ==
    LET total == SumTo(w, Len(w))
        j == CHOOSE k \in 1..Len(w) :
                 /\ (SumTo(w, k) * 1000 > Draw(r, i) * total \/ k = Len(w))
                 /\ \A l \in 1..(k - 1) : SumTo(w, l) * 1000 <= Draw(r, i) * total
    IN  pool[j]

\* max(lo, min(hi, x))
Clamp(lo, hi, x) == Max2(lo, Min2(hi, x))

\* _build_contour: [indices, pos].  int(a + (b - a) * i / d) is taken on
\* the exact quotient; every value is >= 0, so it is the floor.
build_contour(contour, length, scale_len, r, pos) ==
    LET mid  == scale_len \div 2
        high == Min2(scale_len - 1, scale_len - 2)
        low  == 0
        half == length \div 2
        d1   == Max2(half - 1, 1)
        d2   == Max2(length - half - 1, 1)
        dl   == Max2(length - 1, 1)
        peak == RandInt(r, pos, mid, high)
        arch == [ i \in 1..length |->
                    IF i <= half THEN (low * d1 + (peak - low) * (i - 1)) \div d1
                    ELSE (peak * d2 - (peak - low) * (i - half - 1)) \div d2 ]
        start == CASE contour = "descending" -> RandInt(r, pos, mid, high)
                   [] contour = "rising"     -> RandInt(r, pos, low, mid - 1)
                   [] OTHER                  -> mid
        end   == CASE contour = "descending" -> RandInt(r, pos + 1, low, mid - 1)
                   [] contour = "rising"     -> RandInt(r, pos + 1, mid, high)
                   [] OTHER                  -> mid
        used  == IF contour \in {"descending", "rising"} THEN 2 ELSE 0
    IN  IF contour = "arch"
        THEN [ indices |-> [ i \in 1..length |->
                               Clamp(0, scale_len - 1, arch[i] + RandInt(r, pos + i, -1, 1)) ],
               pos |-> pos + 1 + length ]
        ELSE [ indices |-> [ i \in 1..length |->
                               Clamp(0, scale_len - 1,
                                     (start * dl + (end - start) * (i - 1)) \div dl
                                     + RandInt(r, pos + used + i - 1, -2, 2)) ],
               pos |-> pos + used + length ]

\* The loop "for i, idx in enumerate(indices)" of melody_gen.generate, from
\* the i-th index on, with the notes so far and the beat cursor
\* One iteration of the loop, for the i-th index: stop is whether the loop
\* is left (no index left, or a break), else the note is appended
MelodyStep(dna, s, indices, i, notes, beat, total_beats, r, pos) ==
    IF i > Len(indices) \/ beat >= total_beats
    THEN [ stop |-> TRUE, notes |-> notes, beat |-> beat, pos |-> pos ]
    ELSE LET has    == notes # << >>
             rep    == has /\ Chance(r, pos, dna.repeat_note_chance)
             p1     == IF has THEN pos + 1 ELSE pos
             prev   == notes[Len(notes)][2]
             idx    == IF rep /\ prev \in Range(s) THEN IndexOf(s, prev) ELSE indices[i]
             pitch  == s[(idx % Len(s)) + 1]
             long   == Chance(r, p1, dna.long_note_chance)
             picked == IF long
                       THEN WeightedChoice(<<10000, 15000, 20000>>, <<40, 35, 25>>, r, p1 + 1)
                       ELSE WeightedChoice(dna.duration_pool, dna.duration_weights, r, p1 + 1)
             dur    == Min2(picked, total_beats - beat)
             vel    == Clamp(40, 115, dna.velocity_base
                                      + RandInt(r, p1 + 2, -dna.velocity_var, dna.velocity_var))
             beat2  == beat + dur
             rest   == Chance(r, p1 + 3, dna.rest_chance) /\ beat2 < total_beats
             gap    == WeightedChoice(<<2500, 5000>>, <<70, 30>>, r, p1 + 4)
         IN  IF dur <= 0 THEN [ stop |-> TRUE, notes |-> notes, beat |-> beat, pos |-> pos ]
             ELSE [ stop  |-> FALSE,
                    notes |-> Append(notes, << Round3(beat), pitch, Round3(dur), vel >>),
                    beat  |-> IF rest THEN beat2 + gap ELSE beat2,
                    pos   |-> IF rest THEN p1 + 5 ELSE p1 + 4 ]

RECURSIVE MelodyLoop(_, _, _, _, _, _, _, _, _)
MelodyLoop(dna, s, indices, i, notes, beat, total_beats, r, pos) ==
    LET step == MelodyStep(dna, s, indices, i, notes, beat, total_beats, r, pos)
    IN  IF step.stop THEN step.notes
        ELSE MelodyLoop(dna, s, indices, i + 1, step.notes, step.beat, total_beats, r, step.pos)

\* melody_gen.generate(genre, key, scale, bars) with the ambient random source r
melody_generate(genre, key, scale, bars, r) ==
    LET dna        == IF genre \in DOMAIN MELODY_DNA THEN MELODY_DNA[genre] ELSE MELODY_DNA["trap"]
        root       == IF key \in DOMAIN NOTES THEN NOTES[key] ELSE 65
        intervals  == IF scale \in DOMAIN SCALES THEN SCALES[scale] ELSE SCALES["minor"]
        s          == build_scale(root, intervals, 3)
        note_count == RandInt(r, 0, dna.note_count[1], dna.note_count[2])
        c          == build_contour(dna.contour, note_count, Len(s), r, 1)
    IN  MelodyLoop(dna, s, c.indices, 1, << >>, 0, bars * 4 * Unit, r, c.pos)

\* ------------------------------------------------------------------------
\* pattern_catalog.py
\* ------------------------------------------------------------------------

\* str.upper() and str.replace(' ', '_') on the strings that reach register
UPPER == ("trap" :> "TRAP") @@ ("drill" :> "DRILL") @@ ("hip_hop" :> "HIP_HOP") @@
         ("rnb" :> "RNB") @@ ("melodic" :> "MELODIC") @@
         ("drum" :> "DRUM") @@ ("melody" :> "MELODY")

ReplaceSpace(str) == IF str = "hip hop" THEN "hip_hop" ELSE str

\* The decimal digits of n, most significant first
RECURSIVE Digits(_)
Digits(n) == IF n < 10 THEN << n >> ELSE Append(Digits(n \div 10), n % 10)

\* f"{number:04d}": zero-padded to at least four digits
Fmt04(n) ==
    LET d == Digits(n)
    IN  IF Len(d) >= 4 THEN d ELSE [ i \in 1..(4 - Len(d)) |-> 0 ] \o d

\* f"{genre.replace(' ', '_').upper()}_{pattern_type.upper()}_{number:04d}"
MakeId(genre, pattern_type, number) ==
    << UPPER[ReplaceSpace(genre)], UPPER[pattern_type], Fmt04(number) >>

NoEntry == [ id |-> << "", "", << >> >>, type |-> "", genre |-> "", key |-> "", fingerprint |-> 0,
             note_count |-> 0, repeat |-> FALSE ]

\* The catalog file: absent, unparseable (valid is FALSE), or JSON text.
\* The JSON text of a dict of entries (shape "mapping": in insertion order,
\* the sequence of its entries, keyed by id) is what _save writes; JSON text
\* of another shape is the array [] (shape "list") or the object {"x": 1}
\* (shape "numbers").
NoFile == [ exists |-> FALSE, valid |-> FALSE, shape |-> "none", entries |-> << >> ]

\* CATALOG_FILE.name
CATALOG_NAME == << "pattern_catalog", ".json" >>

\* _load(): {} when the file is absent or json.loads raises
load(file) == IF file.exists /\ file.valid THEN file.entries ELSE << >>

\* What kind of value _load() returns: json.loads gives back whatever JSON
\* value the text holds, and the {} of the other paths is a dict
LoadedShape(file) == IF file.exists /\ file.valid THEN file.shape ELSE "mapping"

\* A faulty variant of save: the entries of the file are kept, those of
\* the catalog are set among them
RECURSIVE SaveMerged(_, _)
SaveMerged(file, catalog) ==
    IF catalog = << >>
    THEN [ exists |-> TRUE, valid |-> TRUE, shape |-> "mapping", entries |-> load(file) ]
    ELSE [ exists |-> TRUE, valid |-> TRUE, shape |-> "mapping",
           entries |-> LET kept == SaveMerged(file, SubSeq(catalog, 1, Len(catalog) - 1)).entries
                           last == catalog[Len(catalog)]
                       IN  IF \E i \in 1..Len(kept) : kept[i].id = last.id
                           THEN [ i \in 1..Len(kept) |-> IF kept[i].id = last.id THEN last ELSE kept[i] ]
                           ELSE Append(kept, last) ]

\* _save(catalog): the whole file is rewritten
save(file, catalog) == [ exists |-> TRUE, valid |-> TRUE, shape |-> "mapping", entries |-> catalog ]

\* The duplicate check: the first entry, in dict order, with the fingerprint
Duplicates(catalog, fp) == { i \in 1..Len(catalog) : catalog[i].fingerprint = fp }

\* A faulty variant of FirstDuplicate: the first entry of the catalog
FirstEntryOfCatalog(catalog, fp) == catalog[1]

FirstDuplicate(catalog, fp) ==
    catalog[CHOOSE i \in Duplicates(catalog, fp) : \A j \in Duplicates(catalog, fp) : i <= j]

\* A faulty variant of NextNumber: a count over the entries of the genre,
\* of whatever type
NextNumberAnyType(catalog, pattern_type, genre) ==
    Cardinality({ i \in 1..Len(catalog) : catalog[i].genre = genre }) + 1

\* existing = [e for e in catalog.values() if type and genre match]
\* number = len(existing) + 1
NextNumber(catalog, pattern_type, genre) ==
    Cardinality({ i \in 1..Len(catalog) :
                    catalog[i].type = pattern_type /\ catalog[i].genre = genre }) + 1

\* A faulty variant of DictSet: the dict is begun anew with the entry
DictSetAlone(catalog, entry) == << entry >>

\* catalog[pid] = entry
DictSet(catalog, entry) ==
    IF \E i \in 1..Len(catalog) : catalog[i].id = entry.id
    THEN [ i \in 1..Len(catalog) |-> IF catalog[i].id = entry.id THEN entry ELSE catalog[i] ]
    ELSE Append(catalog, entry)

\* The entry register builds for a fingerprint the catalog does not hold
NewEntry(catalog, pattern_type, genre, key, fp, note_count) ==
    [ id          |-> MakeId(genre, pattern_type, NextNumber(catalog, pattern_type, genre)),
      type        |-> pattern_type,
      genre       |-> genre,
      key         |-> key,
      fingerprint |-> fp,
      note_count  |-> note_count,
      repeat      |-> FALSE ]

\* A faulty variant of RepeatEntry: the stored entry as it is
RepeatEntryAsStored(entry) == entry

\* return {**entry, "repeat": True, "id": pid}
RepeatEntry(entry) == [ entry EXCEPT !.repeat = TRUE ]

\* The place of an id among ids compared as strings: the genre prefixes
\* begin with different letters, D < H < M < R < T, then DRUM < MELODY,
\* then the four digits
IdKey(id) ==
    LET genres == << "DRILL", "HIP_HOP", "MELODIC", "RNB", "TRAP" >>
        types  == << "DRUM", "MELODY" >>
    IN  IndexOf(genres, id[1]) * 100000 + IndexOf(types, id[2]) * 10000
          + id[3][1] * 1000 + id[3][2] * 100 + id[3][3] * 10 + id[3][4]

\* list_patterns(genre, pattern_type): the entries, filtered by the
\* arguments that are given ("" for None), sorted by id.  On a loaded value
\* that is not a dict of entries, .values(), e.get or e["id"] raises.
list_patterns(file, genre, pattern_type) ==
    LET Wanted(e) == /\ (genre # "" => e.genre = genre)
                     /\ (pattern_type # "" => e.type = pattern_type)
        results   == SelectSeq(load(file), Wanted)
        sorted    == SortByKey([ i \in 1..Len(results) |-> << IdKey(results[i].id), results[i] >> ])
    IN  IF LoadedShape(file) # "mapping"
        THEN [ raised |-> TRUE, result |-> << >> ]
        ELSE [ raised |-> FALSE, result |-> [ i \in 1..Len(sorted) |-> sorted[i][2] ] ]

\* catalog_size(): len(_load()), whatever was loaded
catalog_size(file) ==
    [ raised |-> FALSE,
      result |-> IF LoadedShape(file) = "numbers" THEN 1 ELSE Len(load(file)) ]

\* ------------------------------------------------------------------------
\* File names, as text in pieces
\* ------------------------------------------------------------------------
\* The decimal digits as text
DigitsText(digits) ==
    [ i \in 1..Len(digits) |-> << "0", "1", "2", "3", "4", "5", "6", "7", "8", "9" >>[digits[i] + 1] ]

\* f"{pattern_id}.mid" of write_midi, for an id of the catalog
MidiName(id) == << id[1], "_", id[2], "_" >> \o DigitsText(id[3]) \o << ".mid" >>

\* ------------------------------------------------------------------------
\* app.py: input domains of the GUI
\* ------------------------------------------------------------------------
BPM_MAP == ("trap" :> 140) @@ ("drill" :> 144) @@ ("hip hop" :> 90) @@ ("rnb" :> 85) @@ ("melodic" :> 140)

\* The texts that int() accepts, among those the model types, with their values
NumberOf == ("150" :> 150) @@ ("140" :> 140) @@ ("144" :> 144) @@ ("90" :> 90) @@ ("85" :> 85) @@
            ("999" :> 999) @@ ("2" :> 2) @@ ("9" :> 9) @@ ("0" :> 0)

\* str(n)
NumberText(n) == CHOOSE text \in DOMAIN NumberOf : NumberOf[text] = n

\* _get_safe_bpm: the BPM field when it is a number within 40..300, else the
\* genre's BPM
get_safe_bpm(bpm_field, genre) ==
    IF bpm_field \in DOMAIN NumberOf /\ 40 <= NumberOf[bpm_field] /\ NumberOf[bpm_field] <= 300
    THEN NumberOf[bpm_field]
    ELSE IF genre \in DOMAIN BPM_MAP THEN BPM_MAP[genre] ELSE 140

\* scale_map of _exec_midi_gen
ScaleMap(genre) ==
    CASE genre \in {"trap", "drill", "melodic"} -> "minor"
      [] genre = "hip hop" -> "minor_pent"
      [] genre = "rnb"     -> "dorian"
      [] OTHER             -> "minor"

\* ------------------------------------------------------------------------
\* app.py: the workspace guard.  A path is the sequence of its components
\* below the root; a component is a sequence of pieces of text, its
\* characters in groups ("outputs_backup" is "outputs" then "_backup").
\* ------------------------------------------------------------------------
BASE_DIR == << <<"san3">> >>

\* BASE_DIR / "outputs"
OUTPUT_DIR == BASE_DIR \o << <<"outputs">> >>

\* Path.resolve() of an absolute path: "." is dropped and ".." removes the
\* component before it (at the root there is none to remove).  done is the
\* part resolved so far.
RECURSIVE ResolveFrom(_, _)
ResolveFrom(done, rest) ==
    IF rest = << >> THEN done
    ELSE IF rest[1] = <<".">> THEN ResolveFrom(done, Tail(rest))
    ELSE IF rest[1] = <<"..">>
    THEN ResolveFrom(IF done = << >> THEN << >> ELSE SubSeq(done, 1, Len(done) - 1), Tail(rest))
    ELSE ResolveFrom(Append(done, rest[1]), Tail(rest))

resolve(path) == ResolveFrom(<< >>, path)

\* str(path): every component behind a separator
RECURSIVE PathStr(_)
PathStr(path) ==
    IF path = << >> THEN << >>
    ELSE << "/" >> \o path[1] \o PathStr(Tail(path))

\* text.startswith(prefix)
startswith(text, prefix) ==
    Len(text) >= Len(prefix) /\ SubSeq(text, 1, Len(prefix)) = prefix

\* safe_output_path(path): TRUE when the path is returned, FALSE when
\* PermissionError is raised
safe_output_path(path) ==
    startswith(PathStr(resolve(path)), PathStr(resolve(OUTPUT_DIR)))

\* ------------------------------------------------------------------------
\* generator.py: the seeded generator.  NOTES and SCALES of generator.py
\* hold the same values as those of melody_gen.py above.
\* ------------------------------------------------------------------------
GENRE_DEFAULTS ==
    ("trap"    :> [ key |-> "F",  scale |-> "minor",      bpm |-> 140, swing |-> 0 ]) @@
    ("drill"   :> [ key |-> "G#", scale |-> "minor",      bpm |-> 144, swing |-> 0 ]) @@
    ("hip hop" :> [ key |-> "A",  scale |-> "minor_pent", bpm |-> 90,  swing |-> 12 ]) @@
    ("rnb"     :> [ key |-> "A#", scale |-> "dorian",     bpm |-> 85,  swing |-> 8 ]) @@
    ("melodic" :> [ key |-> "C#", scale |-> "minor",      bpm |-> 140, swing |-> 0 ])

GEN_GM == [ kick |-> 36, snare |-> 38, clap |-> 39, hihat_cl |-> 42, hihat_op |-> 46,
            hihat_ped |-> 44, rim |-> 37, snap |-> 39, shaker |-> 70, tom_lo |-> 45 ]

\* _next_id: f"GEN-{n:04d}" with n = len(history) + 1
\* A faulty variant of _next_id: n = max(1, len(history))
NextIdOfLength(history) == << "GEN", Fmt04(Max2(1, Len(history))) >>

\* _next_id(history)
next_id(history) == << "GEN", Fmt04(Len(history) + 1) >>

\* _seed_from_id: int(md5(pattern_id).hexdigest(), 16) % 2**31, a number
\* computed from the characters of the id (here below 10000)
RECURSIVE SeedFromDigits(_, _)
SeedFromDigits(digits, h) ==
    IF digits = << >> THEN h
    ELSE SeedFromDigits(Tail(digits), (h * 131 + digits[1] * 977 + 17) % 9973)

seed_from_id(pattern_id) == SeedFromDigits(pattern_id[2], 71)

\* rng = random.Random(seed): a source of its own, all of it fixed by seed
Seeded(seed) == [ prefix |-> << >>, seed |-> seed ]

\* _vel(rng, lo, hi)
vel(r, i, lo, hi) == RandInt(r, i, Max2(1, lo), Min2(127, hi))

\* rng.choice(seq)
Choice(r, i, seq) == seq[RandInt(r, i, 1, Len(seq))]

\* The dna of _gen_drums, in per-mille
GEN_DRUM_DNA ==
    ("trap"    :> [ kick_density |-> 350, snare_ghost |-> 400, hat_density |-> 850, hat_open |-> 150, swing |-> 0 ]) @@
    ("drill"   :> [ kick_density |-> 400, snare_ghost |-> 200, hat_density |-> 900, hat_open |-> 250, swing |-> 0 ]) @@
    ("hip hop" :> [ kick_density |-> 300, snare_ghost |-> 550, hat_density |-> 600, hat_open |-> 200, swing |-> 12 ]) @@
    ("rnb"     :> [ kick_density |-> 250, snare_ghost |-> 350, hat_density |-> 450, hat_open |-> 100, swing |-> 8 ]) @@
    ("melodic" :> [ kick_density |-> 300, snare_ghost |-> 300, hat_density |-> 700, hat_open |-> 200, swing |-> 0 ])

\* for step in steps: if rng.random() < p: notes.append((offset + step, pitch, _vel(rng, lo, hi)))
RECURSIVE ChanceHits(_, _, _, _, _, _, _, _)
ChanceHits(steps, offset, pitch, permille, lo, hi, r, pos) ==
    IF steps = << >> THEN [ hits |-> << >>, pos |-> pos ]
    ELSE LET hit  == Chance(r, pos, permille)
             rest == ChanceHits(Tail(steps), offset, pitch, permille, lo, hi, r,
                                IF hit THEN pos + 2 ELSE pos + 1)
         IN  [ hits |-> (IF hit THEN << << offset + steps[1], pitch, vel(r, pos + 1, lo, hi) >> >>
                         ELSE << >>) \o rest.hits,
               pos  |-> rest.pos ]

\* The hi-hat loop: steps 0, 4, 8, 12 are louder
RECURSIVE GenHats(_, _, _, _, _)
GenHats(step, offset, permille, r, pos) ==
    IF step > 15 THEN [ hits |-> << >>, pos |-> pos ]
    ELSE LET hit      == Chance(r, pos, permille)
             base_vel == IF step % 4 = 0 THEN 90 ELSE 60
             rest     == GenHats(step + 1, offset, permille, r, IF hit THEN pos + 2 ELSE pos + 1)
         IN  [ hits |-> (IF hit
                         THEN << << offset + step, GEN_GM.hihat_cl,
                                    vel(r, pos + 1, base_vel - 15, base_vel + 10) >> >>
                         ELSE << >>) \o rest.hits,
               pos  |-> rest.pos ]

\* The kicks of one bar: always on 1, mostly on 9, syncopations by chance
GenKicks(dna, offset, r, pos) ==
    LET on9   == Chance(r, pos + 1, 850)
        p1    == IF on9 THEN pos + 3 ELSE pos + 2
        synco == ChanceHits(<<2, 3, 6, 7, 10, 11, 14, 15>>, offset, GEN_GM.kick,
                            (dna.kick_density * 4) \div 10, 65, 90, r, p1)
    IN  [ hits |-> << << offset, GEN_GM.kick, vel(r, pos, 105, 115) >> >>
                   \o (IF on9 THEN << << offset + 8, GEN_GM.kick, vel(r, pos + 2, 95, 110) >> >>
                       ELSE << >>)
                   \o synco.hits,
          pos  |-> synco.pos ]

\* The snares of one bar: 4 and 12, claps on top for trap and melodic, ghosts
GenSnares(dna, genre, offset, r, pos) ==
    LET clap  == genre \in {"trap", "melodic"}
        p1    == IF clap THEN pos + 4 ELSE pos + 2
        ghost == ChanceHits(<<2, 3, 6, 7, 9, 10, 13, 14, 15>>, offset, GEN_GM.snare,
                            (dna.snare_ghost * 3) \div 10, 25, 45, r, p1)
    IN  [ hits |-> << << offset + 4,  GEN_GM.snare, vel(r, pos, 95, 105) >>,
                      << offset + 12, GEN_GM.snare, vel(r, pos + 1, 95, 105) >> >>
                   \o (IF clap
                       THEN << << offset + 4,  GEN_GM.clap, vel(r, pos + 2, 85, 95) >>,
                               << offset + 12, GEN_GM.clap, vel(r, pos + 3, 85, 95) >> >>
                       ELSE << >>)
                   \o ghost.hits,
          pos  |-> ghost.pos ]

\* After the snares: hats, open hats, the rnb shaker, the hip hop rim
GenTops(dna, genre, offset, r, pos) ==
    LET hats   == GenHats(0, offset, dna.hat_density, r, pos)
        open   == ChanceHits(<<3, 5, 7, 11, 13, 15>>, offset, GEN_GM.hihat_op, dna.hat_open,
                             60, 80, r, hats.pos)
        shaker == IF genre = "rnb"
                  THEN ChanceHits(<<2, 6, 10, 14>>, offset, GEN_GM.shaker, 700, 40, 60, r, open.pos)
                  ELSE [ hits |-> << >>, pos |-> open.pos ]
        rim    == IF genre = "hip hop"
                  THEN ChanceHits(<<2, 6, 10, 14>>, offset, GEN_GM.rim, 450, 30, 50, r, shaker.pos)
                  ELSE [ hits |-> << >>, pos |-> shaker.pos ]
    IN  [ hits |-> hats.hits \o open.hits \o shaker.hits \o rim.hits, pos |-> rim.pos ]

\* One pass of "for bar in range(bars)" and the passes after it
RECURSIVE GenBars(_, _, _, _, _, _)
GenBars(dna, genre, bar, bars, r, pos) ==
    IF bar >= bars THEN << >>
    ELSE LET k == GenKicks(dna, bar * 16, r, pos)
             s == GenSnares(dna, genre, bar * 16, r, k.pos)
             t == GenTops(dna, genre, bar * 16, r, s.pos)
         IN  k.hits \o s.hits \o t.hits \o GenBars(dna, genre, bar + 1, bars, r, t.pos)

\* _gen_drums: the list notes of (step, pitch, velocity)
gen_drums(seed, genre, bars) ==
    GenBars(IF genre \in DOMAIN GEN_DRUM_DNA THEN GEN_DRUM_DNA[genre] ELSE GEN_DRUM_DNA["trap"],
            genre, 0, bars, Seeded(seed), 0)

\* The dna of _gen_melody, in per-mille
GEN_MELODY_DNA ==
    ("trap"    :> [ density |-> 550, long_note |-> 300, repeat |-> 250, high_reg |-> 300, rest_prob |-> 150 ]) @@
    ("drill"   :> [ density |-> 650, long_note |-> 150, repeat |-> 450, high_reg |-> 500, rest_prob |-> 100 ]) @@
    ("hip hop" :> [ density |-> 500, long_note |-> 350, repeat |-> 200, high_reg |-> 250, rest_prob |-> 200 ]) @@
    ("rnb"     :> [ density |-> 400, long_note |-> 500, repeat |-> 150, high_reg |-> 200, rest_prob |-> 250 ]) @@
    ("melodic" :> [ density |-> 500, long_note |-> 400, repeat |-> 200, high_reg |-> 400, rest_prob |-> 120 ])

\* One note of the loop, drawn from position pos on, when no rest is taken:
\* duration, pitch, register, velocity
GenNote(dna, scale, prev_pitch, beat, total_beats, r, pos) ==
    LET long   == Chance(r, pos, dna.long_note)
        dur0   == IF long THEN Choice(r, pos + 1, << Unit, (3 * Unit) \div 2, 2 * Unit >>)
                  ELSE Choice(r, pos + 1, << Unit \div 4, Unit \div 4, Unit \div 2, Unit \div 2,
                                             (3 * Unit) \div 4 >>)
        dur    == Min2(dur0, (total_beats - beat) - Unit \div 100)
        same   == Chance(r, pos + 2, dna.repeat)
        idx    == IF prev_pitch \in Range(scale) THEN IndexOf(scale, prev_pitch) ELSE Len(scale) \div 2
        step   == Choice(r, pos + 3, << -2, -1, -1, -1, 0, 1, 1, 1, 2, 3, -3 >>)
        pitch0 == IF same THEN prev_pitch
                  ELSE scale[Max2(0, Min2(Len(scale) - 1, idx + step)) + 1]
        p1     == IF same THEN pos + 3 ELSE pos + 4
        pitch  == IF Chance(r, p1, dna.high_reg) THEN Min2(pitch0 + 12, scale[Len(scale)]) ELSE pitch0
        bp     == beat % (4 * Unit)
        v      == IF bp \in {0, 2 * Unit} THEN RandInt(r, p1 + 1, 88, 100)
                  ELSE IF bp \in {Unit, 3 * Unit} THEN RandInt(r, p1 + 1, 78, 92)
                  ELSE RandInt(r, p1 + 1, 65, 82)
    IN  [ note |-> << beat, pitch, dur, v >>, dur |-> dur, pitch |-> pitch, pos |-> p1 + 2 ]

\* while beat < total_beats - 0.25: ...   then "Always end on root"
\* A faulty variant of GenMelodyStep: a rest leaves the cursor where it is
GenMelodyStepRestInPlace(dna, scale, root, prev_pitch, beat, total_beats, r, pos) ==
    LET final == IF beat < total_beats
                 THEN << << beat, root + 12, (total_beats - beat) - Unit \div 100, 100 >> >>
                 ELSE << >>
        n     == GenNote(dna, scale, prev_pitch, beat, total_beats, r, pos + 1)
    IN  IF beat >= total_beats - Unit \div 4
        THEN [ stop |-> TRUE, notes |-> final, prev |-> prev_pitch, beat |-> beat, pos |-> pos ]
        ELSE IF Chance(r, pos, dna.rest_prob)
        THEN [ stop |-> FALSE, notes |-> << >>, prev |-> prev_pitch, beat |-> beat, pos |-> pos + 2 ]
        ELSE IF n.dur <= 0
        THEN [ stop |-> TRUE, notes |-> final, prev |-> prev_pitch, beat |-> beat, pos |-> pos ]
        ELSE [ stop |-> FALSE, notes |-> << n.note >>, prev |-> n.pitch, beat |-> beat + n.dur,
               pos |-> n.pos ]

\* One iteration: stop is whether the loop is left (its test fails, or a
\* break), and then notes is the final root note, if any; else notes is
\* the note appended, if any
GenMelodyStep(dna, scale, root, prev_pitch, beat, total_beats, r, pos) ==
    LET final == IF beat < total_beats
                 THEN << << beat, root + 12, (total_beats - beat) - Unit \div 100, 100 >> >>
                 ELSE << >>
        n     == GenNote(dna, scale, prev_pitch, beat, total_beats, r, pos + 1)
    IN  IF beat >= total_beats - Unit \div 4
        THEN [ stop |-> TRUE, notes |-> final, prev |-> prev_pitch, beat |-> beat, pos |-> pos ]
        ELSE IF Chance(r, pos, dna.rest_prob)
        THEN [ stop |-> FALSE, notes |-> << >>, prev |-> prev_pitch,
               beat |-> beat + Choice(r, pos + 1, << Unit \div 4, Unit \div 2 >>), pos |-> pos + 2 ]
        ELSE IF n.dur <= 0
        THEN [ stop |-> TRUE, notes |-> final, prev |-> prev_pitch, beat |-> beat, pos |-> pos ]
        ELSE [ stop |-> FALSE, notes |-> << n.note >>, prev |-> n.pitch, beat |-> beat + n.dur,
               pos |-> n.pos ]

RECURSIVE GenMelodyLoop(_, _, _, _, _, _, _, _)
GenMelodyLoop(dna, scale, root, prev_pitch, beat, total_beats, r, pos) ==
    LET step == GenMelodyStep(dna, scale, root, prev_pitch, beat, total_beats, r, pos)
    IN  IF step.stop THEN step.notes
        ELSE step.notes \o GenMelodyLoop(dna, scale, root, step.prev, step.beat, total_beats, r,
                                         step.pos)

\* _gen_melody up to "Write MIDI": the list notes of (beat, pitch, dur, velocity)
GenRoot(key) == IF key \in DOMAIN NOTES THEN NOTES[key] ELSE 65

\* scale = [root + iv + 12 * oct for oct in range(3) for iv in ivs]
GenScale(genre, key) ==
    LET ivs == SCALES[GENRE_DEFAULTS[genre].scale]
    IN  [ j \in 1..(3 * Len(ivs)) |->
            GenRoot(key) + ivs[((j - 1) % Len(ivs)) + 1] + ((j - 1) \div Len(ivs)) * 12 ]

GenMelodyDna(genre) ==
    IF genre \in DOMAIN GEN_MELODY_DNA THEN GEN_MELODY_DNA[genre] ELSE GEN_MELODY_DNA["trap"]

gen_melody_notes(seed, genre, key, bars) ==
    LET root  == GenRoot(key)
        scale == GenScale(genre, key)
        r     == Seeded(seed)
        first == scale[RandInt(r, 0, 0, Len(scale) \div 2) + 1]
        dna   == GenMelodyDna(genre)
    IN  GenMelodyLoop(dna, scale, root, first, 0, bars * 4 * Unit, r, 1)

\* The pass "deduplicate overlapping same-pitch notes": seen maps a pitch to
\* the (start, dur) of its latest note, clean is the list built so far
RECURSIVE GenClean(_, _, _, _)
GenClean(notes, i, seen, clean) ==
    IF i > Len(notes) THEN clean
    ELSE LET start   == notes[i][1]
             pitch   == notes[i][2]
             overlap == pitch \in DOMAIN seen /\ start < seen[pitch][1] + seen[pitch][2]
             dur     == IF overlap THEN Max2(Unit \div 10, (start - seen[pitch][1]) - Unit \div 100)
                        ELSE notes[i][3]
             clean1  == IF overlap
                        THEN [ clean EXCEPT ![Len(clean)] =
                                 << seen[pitch][1], pitch, dur, clean[Len(clean)][4] >> ]
                        ELSE clean
             seen1   == [ q \in DOMAIN seen \cup {pitch} |->
                            IF q = pitch THEN << start, dur >> ELSE seen[q] ]
         IN  GenClean(notes, i + 1, seen1, Append(clean1, << start, pitch, dur, notes[i][4] >>))

\* _gen_melody: the notes written, after notes.sort(key=start) and the pass
\* above; addNote gets max(0.1, dur)
gen_melody(seed, genre, key, bars) ==
    LET clean == GenClean(SortByKey(gen_melody_notes(seed, genre, key, bars)), 1, << >>, << >>)
    IN  [ i \in 1..Len(clean) |->
            << clean[i][1], clean[i][2], Max2(Unit \div 10, clean[i][3]), clean[i][4] >> ]

\* str.lower() and str.upper() on the answers the model types
LOWER(text) == IF text = "TRAP" THEN "trap" ELSE text

UPPERKEY(text) == IF text = "a" THEN "A" ELSE text

\* f"GEN-{n:04d}" as text
GenIdText(pid) == << pid[1], "-" >> \o DigitsText(pid[2])

\* f"drums_{pid}_{safe}_{bpm}bpm.mid" with safe = genre.replace(" ", "_")
DrumsName(pid, genre, bpm) ==
    << "drums", "_" >> \o GenIdText(pid) \o
    << "_", ReplaceSpace(genre), "_" >> \o DigitsText(Digits(bpm)) \o << "bpm", ".mid" >>

\* f"melody_{pid}_{safe}_{key}_{bpm}bpm.mid"
MelodyName(pid, genre, key, bpm) ==
    << "melody", "_" >> \o GenIdText(pid) \o
    << "_", ReplaceSpace(genre), "_", key, "_" >> \o DigitsText(Digits(bpm)) \o << "bpm", ".mid" >>

\* _load_history(): {} when the file is absent or json.loads raises
load_history(file) == IF file.exists /\ file.valid THEN file.entries ELSE << >>

\* _save_history(history): the whole file is rewritten
save_history(file, history) ==
    [ exists |-> TRUE, valid |-> TRUE, shape |-> "mapping", entries |-> history ]

\* ------------------------------------------------------------------------
\* midi_gen.py and drum_build.py: the genre typed at the prompt
\* ------------------------------------------------------------------------
\* app.py GENRES, and the keys of GENRE_DEFAULTS and of PATTERNS in order
GENRES == << "trap", "drill", "hip hop", "rnb", "melodic" >>

\* The characters of the texts typed and of the genre names
Chars ==
    ("" :> << >>) @@ ("trap" :> <<"t", "r", "a", "p">>) @@ ("drill" :> <<"d", "r", "i", "l", "l">>) @@
    ("hip hop" :> <<"h", "i", "p", " ", "h", "o", "p">>) @@ ("rnb" :> <<"r", "n", "b">>) @@
    ("melodic" :> <<"m", "e", "l", "o", "d", "i", "c">>) @@ ("hop" :> <<"h", "o", "p">>) @@
    ("e" :> <<"e">>) @@ ("jazz" :> <<"j", "a", "z", "z">>) @@ ("2" :> <<"2">>) @@ ("9" :> <<"9">>)

\* a in b, for texts
In(a, b) ==
    \E i \in 0..Len(Chars[b]) :
        /\ i + Len(Chars[a]) <= Len(Chars[b])
        /\ SubSeq(Chars[b], i + 1, i + Len(Chars[a])) = Chars[a]

\* for g in names: if raw in g or g in raw: return g; return "trap"
FirstMatch(raw, names) ==
    IF \E i \in 1..Len(names) : In(raw, names[i]) \/ In(names[i], raw)
    THEN names[CHOOSE i \in 1..Len(names) :
                 /\ In(raw, names[i]) \/ In(names[i], raw)
                 /\ \A j \in 1..(i - 1) : ~(In(raw, names[j]) \/ In(names[j], raw))]
    ELSE "trap"

\* midi_gen._match_genre(raw)
match_genre(raw) == FirstMatch(raw, GENRES)

\* drum_build._resolve_genre(raw): the number of a pattern, else a name match
resolve_genre(raw) ==
    IF raw \in DOMAIN NumberOf /\ 0 <= NumberOf[raw] - 1 /\ NumberOf[raw] - 1 < Len(GENRES)
    THEN GENRES[NumberOf[raw]]
    ELSE FirstMatch(raw, GENRES)

\* bpm = int(bpm_in) if bpm_in else default, and default on ValueError
PromptedBpm(bpm_in, default) ==
    IF bpm_in # "" /\ bpm_in \in DOMAIN NumberOf THEN NumberOf[bpm_in] ELSE default

\* ------------------------------------------------------------------------
\* Inputs the model enumerates
\* ------------------------------------------------------------------------
\* Genres and keys selected in the GUI during a run of the model
ModelGenres == {"trap", "hip hop"}

ModelKeys == {"F"}

\* The key arguments of direct calls of register
CallKeys == {"F", "drums"}

\* Outcomes of the ambient random source: the first two differ in the
\* first draw only
AmbientSources ==
    { [ prefix |-> <<0>>, seed |-> 1 ], [ prefix |-> <<999>>, seed |-> 1 ],
      [ prefix |-> << >>, seed |-> 2 ] }

\* Note lists passed to register() directly: NL1; NL1r, which rounds to
\* NL1; and NL1 with other velocities, with its notes in the other order,
\* and with another rounded duration in one note
NL1 == << <<0, 60, 5000, 90>>, <<5000, 62, 5000, 80>> >>

NL1r == << <<4, 60, 5001, 90>>, <<5004, 62, 4996, 80>> >>

NoteLists ==
    { NL1, NL1r,
      << <<0, 60, 5000, 64>>, <<5000, 62, 5000, 101>> >>,
      << <<5000, 62, 5000, 80>>, <<0, 60, 5000, 90>> >>,
      << <<0, 60, 5006, 90>>, <<5000, 62, 5000, 80>> >> }

PatternTypes == {"drum", "melody"}

\* Settings of the GUI when GENERATOR is clicked: the genre and key
\* dropdowns, the BPM field and the bars radio button
GuiSettings ==
    { [ genre |-> "trap", key |-> "F", bpm |-> "150", bars |-> "4" ],
      [ genre |-> "hip hop", key |-> "A", bpm |-> "999", bars |-> "8" ] }

\* What a user types at the prompts of generator.run: the choice, then
\* genre, key, bpm and bars (ENTER is "")
CliChoices == {"", "1", "2", "4", "9"}

TypedAnswers ==
    { << "hip hop", "a", "150", "8" >>, << "", "", "", "" >>, << "TRAP", "H", "fast", "16" >> }

RecallIds == { << "GEN", Fmt04(n) >> : n \in {1, 2, 9} }

\* The number of components of a relative path
MaxDepth == 3

\* The paths safe_output_path is called on: OUTPUT_DIR / relative, for
\* every relative path of up to MaxDepth of these components
GuardPaths ==
    LET components == { << ".." >>, << "." >>, << "x.mid" >>, << "san3" >>, << "outputs" >>,
                        << "outputs", "_backup" >>, << "etc" >> }
    IN  { OUTPUT_DIR \o rel : rel \in UNION { [ 1..n -> components ] : n \in 1..MaxDepth } }

Threads == {1, 2}

\* What generate returns for each input the model enumerates and each
\* outcome of the random source
DrumPatterns == [ g \in ModelGenres |-> [ r \in AmbientSources |-> generate(g, r) ] ]

MelodyPatterns ==
    [ g \in ModelGenres |-> [ k \in ModelKeys |-> [ r \in AmbientSources |->
        melody_generate(g, k, ScaleMap(g), 4, r) ] ] ]

\* ------------------------------------------------------------------------
\* pattern_catalog.py: _fingerprint
\* ------------------------------------------------------------------------
\* A faulty variant of FingerprintText: times and durations as given, unrounded
FingerprintTextUnrounded(notes) ==
    [ i \in 1..Len(notes) |-> << notes[i][1], notes[i][2], notes[i][3] >> ]

\* A faulty variant of FingerprintText: the velocity is part of the text
FingerprintTextWithVelocity(notes) ==
    [ i \in 1..Len(notes) |->
        << Round3(notes[i][1]), notes[i][2] * 128 + notes[i][4], Round3(notes[i][3]) >> ]

\* str([(round(t, 3), p, round(d, 3)) for (t, p, d, v) in notes])
FingerprintText(notes) ==
    [ i \in 1..Len(notes) |-> << Round3(notes[i][1]), notes[i][2], Round3(notes[i][3]) >> ]

\* hashlib.md5(raw.encode()).hexdigest()[:12] is a digest of the text: a
\* number computed from every number of the text and its position.
\* One more number taken into a digest:
Md5Update(h, v) == (h * 131 + v + 7) % 1000003

\* The digest of the triples lo..hi of the text, from those of its halves
RECURSIVE Md5Range(_, _, _)
Md5Range(raw, lo, hi) ==
    IF lo = hi
    THEN Md5Update(Md5Update(Md5Update(lo, raw[lo][1]), raw[lo][2]), raw[lo][3])
    ELSE Md5Update(Md5Range(raw, lo, (lo + hi) \div 2), Md5Range(raw, (lo + hi) \div 2 + 1, hi))

\* _fingerprint(notes)
fingerprint(notes) ==
    IF notes = << >> THEN 0 ELSE Md5Range(FingerprintText(notes), 1, Len(notes))

\* ------------------------------------------------------------------------
\* State
\* ------------------------------------------------------------------------
VARIABLES
    catalogFile,   \* outputs/pattern_catalog.json
    historyFile,   \* outputs/.pattern_history.json
    builtinsInput, \* builtins.input of the GUI process
    th,            \* per worker thread or process: where it is in run(), and its locals
    midiFiles,     \* outputs/*.mid: the files written, name and content
    guardChecked,  \* the file names safe_output_path has been called on, with the outcome
    guardCall,     \* a call of safe_output_path of its own: the path and the outcome
    started,       \* number of runs and calls started so far
    assigned,      \* history: the id, fingerprint and pattern of every return of register()
    newCount,      \* history: per (genre, type), the number of new registrations returned
    lastRet,       \* history: the latest return of register()
    lastRun,       \* history: the latest return of drum_gen.run / melody_gen.run
    lastSave,      \* history: the latest _save of the catalog
    generated,     \* history: the id and pattern of every generation of generator.run
    recalled,      \* history: the id and pattern of every recall of generator.run
    lastQuery,     \* history: the latest call of list_patterns (result: the list
                   \* returned) or catalog_size (size: the number returned)
    genCall,       \* a call of one of the four generating functions of its own: the
                   \* arguments, the list it built and the events written to MIDI
    entryCall,     \* a run of one of the entry points of its own: the genre and BPM
                   \* it is given, and the genre and BPM it generates with and records
    loopCall       \* a call of a generating function, loop pass by loop pass: the
                   \* arguments, the passes made, the cursor and the notes so far

vars == << catalogFile, historyFile, builtinsInput, th, midiFiles, guardChecked, guardCall, started,
           assigned, newCount, lastRet, lastRun, lastSave, generated, recalled, lastQuery,
           genCall, entryCall, loopCall >>

\* The histories of register()
regHist == << assigned, newCount, lastRet >>

\* The histories of generator.run
genHist == << generated, recalled >>

\* builtins.input: the real one, the lambda of _exec_drum_build and
\* _exec_midi_gen that answers "" always, or the lambda of _run_mode_safe
\* with the answers its iterator has left
RealInput == [ kind |-> "real", answers |-> << >> ]

\* A thread's locals.  The events generate() returned are held as the
\* random source the call drew from (rands, one per call of generate, the
\* latest last): with genre and key it determines them.  rets are the
\* entries register() has returned to this run so far.
IdleThread ==
    [ pc |-> "idle", mode |-> "", origin |-> "", genre |-> "", key |-> "", scale |-> "", bars |-> 0,
      bpm |-> 0, type |-> "", choice |-> "", answers |-> << >>,
      rands |-> << >>, given |-> << >>, rets |-> << >>,
      catalog |-> << >>, entry |-> NoEntry, history |-> << >>, before |-> {},
      real_input |-> RealInput ]

NoRand == [ prefix |-> << >>, seed |-> 0 ]

\* What determines a pattern: the inputs and the random source of the
\* generate() that made it, or the note list given to a direct call
NoPattern ==
    [ mode |-> "", genre |-> "", key |-> "", bars |-> 0, rand |-> NoRand, given |-> << >> ]

\* The pattern of the thread's latest generate (or of its direct call)
PatternOf(l) ==
    [ mode |-> l.mode,
      genre |-> IF l.mode = "register" THEN "" ELSE l.genre,
      key |-> IF l.mode = "melody" THEN l.key ELSE "",
      bars |-> IF l.mode = "melody" THEN l.bars ELSE 0,
      rand |-> IF l.rands = << >> THEN NoRand ELSE l.rands[Len(l.rands)],
      given |-> l.given ]

\* hits (drum_gen.run) / notes (melody_gen.run) as generate returned them
EventsOf(p) ==
    IF p.mode = "drum" THEN DrumPatterns[p.genre][p.rand]
    ELSE IF p.mode = "melody" THEN MelodyPatterns[p.genre][p.key][p.rand]
    ELSE p.given

\* The note list given to register(): _hits_to_notes(hits) in drum_gen.run,
\* notes in melody_gen.run, the argument of a direct call
NotesOf(p) == IF p.mode = "drum" THEN hits_to_notes(EventsOf(p)) ELSE EventsOf(p)

\* A pattern of the seeded generator: pattern_type is "drums" or "melody"
SeededPattern(pattern_type, seed, genre, key, bars) ==
    [ mode |-> pattern_type, genre |-> genre, key |-> IF pattern_type = "melody" THEN key ELSE "",
      bars |-> bars, rand |-> Seeded(seed), given |-> << >> ]

\* The list notes that _gen_drums / _gen_melody build for the pattern
SeededEventsOf(p) ==
    IF p.mode = "drums" THEN gen_drums(p.rand.seed, p.genre, p.bars)
    ELSE gen_melody(p.rand.seed, p.genre, p.key, p.bars)

NoRet ==
    [ pattern |-> NoPattern, fp |-> 0, entry |-> NoEntry, type |-> "", genre |-> "", key |-> "",
      prior |-> {}, number |-> 0, raised |-> FALSE ]


NoRun ==
    [ mode |-> "", genre |-> "", key |-> "", rands |-> << >>, rets |-> << >>,
      entry |-> NoEntry, path |-> << >> ]

NoSave == [ before |-> << >>, written |-> << >>, after |-> << >>, entry |-> NoEntry ]

NoGuardCall == [ path |-> << >>, result |-> "none" ]

\* A call of a generating function: fn and its arguments (rand is the
\* ambient random source during the call, seed the seed argument), then
\* notes, the list built, and written, the events given to addNote
NoGenCall ==
    [ fn |-> "", genre |-> "", key |-> "", scale |-> "", bars |-> 0, rand |-> NoRand, seed |-> 0,
      done |-> FALSE, notes |-> << >>, written |-> << >> ]

\* Genre, key and scale arguments: the genres of the tables, and names
\* that are in none of them
AllGenres == {"trap", "drill", "hip hop", "rnb", "melodic", "jazz"}

CallScales == {"dorian", "minor_pent", "blues"}

MelodyKeys == {"A#", "H"}

\* The number of draws fixed by a constant random source
MaxDraws == 300

\* Outcomes of the random source for a call of its own: every draw the
\* least, the middle or the greatest value; and the first draws extreme,
\* the later ones as the seed has them
RandomSources ==
    { [ prefix |-> [ i \in 1..MaxDraws |-> v ], seed |-> 0 ] : v \in {0, 500, 999} } \cup
    { [ prefix |-> p, seed |-> s ] :
        p \in UNION { [ 1..n -> {0, 999} ] : n \in 0..2 }, s \in 1..3 }

\* The number of seeds tried besides those of the first ids
NumSeeds == 8

\* Seed arguments: small numbers and the seeds of GEN-0001 .. GEN-0003
Seeds == 0..(NumSeeds - 1) \cup { seed_from_id(<< "GEN", Fmt04(n) >>) : n \in 1..3 }

\* The calls of the generating functions that the model makes
GenCalls ==
    { [ fn |-> "drum_gen.generate", genre |-> g, key |-> "", scale |-> "", bars |-> 2, rand |-> r,
        seed |-> 0, done |-> FALSE, notes |-> << >>, written |-> << >> ] :
        g \in AllGenres, r \in RandomSources } \cup
    { [ fn |-> "melody_gen.generate", genre |-> g, key |-> k, scale |-> s, bars |-> b, rand |-> r,
        seed |-> 0, done |-> FALSE, notes |-> << >>, written |-> << >> ] :
        g \in AllGenres, k \in MelodyKeys, s \in CallScales, b \in {1, 4}, r \in RandomSources } \cup
    { [ fn |-> "_gen_drums", genre |-> g, key |-> "", scale |-> "", bars |-> b, rand |-> NoRand,
        seed |-> n, done |-> FALSE, notes |-> << >>, written |-> << >> ] :
        g \in AllGenres, b \in {2, 4, 8}, n \in Seeds } \cup
    { [ fn |-> "_gen_melody", genre |-> g, key |-> k, scale |-> "", bars |-> b, rand |-> NoRand,
        seed |-> n, done |-> FALSE, notes |-> << >>, written |-> << >> ] :
        g \in DOMAIN GENRE_DEFAULTS, k \in MelodyKeys, b \in {4, 8}, n \in Seeds }

\* The most notes in a list given to the pass over same-pitch notes
MaxNotes == 3

\* Notes of two pitches on a grid of quarter beats
PassNotes ==
    { << start, pitch, dur, velocity >> :
        start \in {0, Unit \div 4, Unit \div 2}, pitch \in {60, 62},
        dur \in {Unit \div 4, Unit}, velocity \in {80, 100} }

\* The pass of _gen_melody over same-pitch notes, on its own: the note
\* lists it is given, any list of up to MaxNotes notes in the order of
\* their starts
PassCalls ==
    { [ NoGenCall EXCEPT !.fn = "clean", !.notes = notes ] :
        notes \in { s \in UNION { [ 1..n -> PassNotes ] : n \in 1..MaxNotes } :
                      \A i \in 1..(Len(s) - 1) : s[i][1] <= s[i + 1][1] } }

\* A call of a generating function followed pass by pass: fn and its
\* arguments (rand is the random source it draws from), begun once the
\* code before the loop has run, done once the loop is left; iters is the
\* number of passes made, i the index of the next pass, and beat, pos
\* (draws made), prev (previous pitch), indices and notes its locals
NoLoopCall ==
    [ fn |-> "", genre |-> "", key |-> "", scale |-> "", bars |-> 0, rand |-> NoRand,
      begun |-> FALSE, done |-> FALSE, iters |-> 0, i |-> 0, beat |-> 0, pos |-> 0, prev |-> 0,
      indices |-> << >>, notes |-> << >> ]

\* The bar counts of the calls followed pass by pass
LoopBars == {0, 1, 4}

LoopCalls ==
    { [ NoLoopCall EXCEPT !.fn = "_gen_melody", !.genre = g, !.key = "A#", !.bars = b,
                          !.rand = Seeded(n) ] :
        g \in DOMAIN GENRE_DEFAULTS, b \in LoopBars, n \in Seeds } \cup
    { [ NoLoopCall EXCEPT !.fn = "melody_gen.generate", !.genre = g, !.key = "A#",
                          !.scale = "dorian", !.bars = b, !.rand = r ] :
        g \in {"trap", "rnb", "jazz"}, b \in LoopBars, r \in RandomSources } \cup
    { [ NoLoopCall EXCEPT !.fn = "_gen_drums", !.genre = g, !.bars = b, !.rand = Seeded(n) ] :
        g \in {"trap", "hip hop", "jazz"}, b \in LoopBars, n \in 0..2 } \cup
    { [ NoLoopCall EXCEPT !.fn = "drum_gen.generate", !.genre = g, !.bars = 2, !.rand = r ] :
        g \in {"trap", "drill", "jazz"}, r \in RandomSources }

\* A run of an entry point: fn, the genre and the BPM it is given (typed at
\* its prompts, set in the GUI, or passed as arguments), then genre, the
\* genre it generates with, recorded, the genre in what it records and
\* writes about the pattern, and bpm, the BPM it writes
NoEntryCall ==
    [ fn |-> "", genre_in |-> "", bpm_in |-> "", done |-> FALSE, genre |-> "", recorded |-> "",
      bpm |-> 0 ]

\* What is typed at a genre prompt
GenreTexts == {"", "trap", "TRAP", "hip hop", "melodic", "hop", "e", "jazz", "2", "9"}

\* What is typed at a BPM prompt or into the BPM field
BpmTexts == {"", "150", "999", "0", "fast"}

EntryCalls ==
    { [ NoEntryCall EXCEPT !.fn = fn, !.genre_in = genre_in, !.bpm_in = bpm_in ] :
        fn \in {"generator.run", "midi_gen.run", "drum_build.run"},
        genre_in \in GenreTexts, bpm_in \in BpmTexts }
    \cup
    { [ NoEntryCall EXCEPT !.fn = "app", !.genre_in = GENRES[i], !.bpm_in = bpm_in ] :
        i \in 1..Len(GENRES), bpm_in \in BpmTexts }
    \cup
    { [ NoEntryCall EXCEPT !.fn = fn, !.genre_in = genre_in, !.bpm_in = bpm_in ] :
        fn \in {"drum_gen.run", "melody_gen.run"},
        genre_in \in {"trap", "hip hop", "melodic", "jazz"}, bpm_in \in {"150", "85"} }

\* The application is started on an empty outputs directory
Start ==
    /\ catalogFile = NoFile
    /\ historyFile = NoFile
    /\ builtinsInput = RealInput
    /\ th = [ t \in Threads |-> IdleThread ]
    /\ midiFiles = {}
    /\ guardChecked = {}
    /\ started = 0
    /\ assigned = {}
    /\ newCount = [ p \in ModelGenres \X PatternTypes |-> 0 ]
    /\ lastRet = NoRet
    /\ lastRun = NoRun
    /\ lastSave = NoSave
    /\ generated = {}
    /\ recalled = {}
    /\ lastQuery = [ op |-> "", genre |-> "", type |-> "", raised |-> FALSE, result |-> << >>,
                     size |-> 0 ]

Init == Start /\ guardCall = NoGuardCall /\ genCall = NoGenCall /\ entryCall = NoEntryCall /\ loopCall = NoLoopCall

\* safe_output_path is about to be called on one of the paths
InitGuard ==
    /\ Start
    /\ \E path \in GuardPaths : guardCall = [ path |-> path, result |-> "none" ]
    /\ genCall = NoGenCall
    /\ entryCall = NoEntryCall
    /\ loopCall = NoLoopCall

\* One of the generating functions is about to be called
InitGenerate ==
    Start /\ guardCall = NoGuardCall /\ genCall \in GenCalls /\ entryCall = NoEntryCall /\ loopCall = NoLoopCall

\* The pass over same-pitch notes is about to be run on one of the lists
InitClean ==
    Start /\ guardCall = NoGuardCall /\ genCall \in PassCalls /\ entryCall = NoEntryCall /\ loopCall = NoLoopCall

\* One of the generating functions is about to be called and followed
InitLoop ==
    /\ Start /\ guardCall = NoGuardCall /\ genCall = NoGenCall /\ entryCall = NoEntryCall
    /\ loopCall \in LoopCalls

\* One of the entry points is about to be run
InitEntry ==
    Start /\ guardCall = NoGuardCall /\ genCall = NoGenCall /\ entryCall \in EntryCalls /\ loopCall = NoLoopCall

Busy(t) == th[t].pc # "idle"

\* ------------------------------------------------------------------------
\* app.py: a click on DRUM BUILD or MIDI GEN.  _run_in_thread starts a
\* worker thread for _exec_drum_build / _exec_midi_gen, which reads the GUI
\* fields, replaces builtins.input and calls run().
\* ------------------------------------------------------------------------
run_in_thread(t, mode, genre, key) ==
    /\ ~Busy(t)
    /\ started < MaxRuns
    /\ started' = started + 1
    /\ th' = [ th EXCEPT ![t] =
                 [ IdleThread EXCEPT !.pc = "generate", !.mode = mode, !.origin = "gui",
                                     !.genre = genre,
                                     !.key = IF mode = "drum" THEN "drums" ELSE key,
                                     !.scale = ScaleMap(genre), !.bars = 4,
                                     !.type = mode, !.real_input = builtinsInput ] ]
    /\ builtinsInput' = [ kind |-> "blank", answers |-> << >> ]
    /\ UNCHANGED << catalogFile, historyFile, midiFiles, guardChecked, guardCall, regHist, lastRun,
                    lastSave, genHist, lastQuery, genCall, entryCall, loopCall >>

\* A direct call register(pattern_type, genre, key, notes)
CallRegister(t, pattern_type, genre, key, notes) ==
    /\ ~Busy(t)
    /\ started < MaxRuns
    /\ started' = started + 1
    /\ th' = [ th EXCEPT ![t] =
                 [ IdleThread EXCEPT !.pc = "load", !.mode = "register", !.genre = genre,
                                     !.key = key, !.type = pattern_type, !.given = notes ] ]
    /\ UNCHANGED << catalogFile, historyFile, builtinsInput, midiFiles, guardChecked, guardCall,
                    regHist, lastRun, lastSave, genHist, lastQuery, genCall, entryCall, loopCall >>

\* run(): hits = generate(genre); notes = _hits_to_notes(hits)   (drum_gen)
\*        notes = generate(genre, key, scale, bars)              (melody_gen)
\* r is what the ambient random source yields during the call
RunGenerate(t, r) ==
    /\ th[t].pc = "generate"
    /\ th' = [ th EXCEPT ![t].pc = "load", ![t].rands = Append(@, r) ]
    /\ UNCHANGED << catalogFile, historyFile, builtinsInput, midiFiles, guardChecked, guardCall,
                    started, regHist, lastRun, lastSave, genHist, lastQuery, genCall, entryCall, loopCall >>

\* A faulty variant of NeedRetry: regenerate as long as register reports a repeat
NeedRetryAlways(regs, entry) == entry.repeat

\* if entry["repeat"]: regenerate and register once more (no loop)
NeedRetry(regs, entry) == regs = 1 /\ entry.repeat

\* Where the caller of register() goes on when register returns entry
AfterRegister(l, entry) ==
    IF l.mode = "register" THEN "idle"
    ELSE IF NeedRetry(Len(l.rets) + 1, entry) THEN "generate"
    ELSE "write"

\* The history of a return of register()
Returned(l, fp, entry) ==
    /\ lastRet' = [ pattern |-> PatternOf(l), fp |-> fp, entry |-> entry,
                    type |-> l.type, genre |-> l.genre, key |-> l.key,
                    prior |-> assigned,
                    number |-> IF entry.repeat THEN 0 ELSE newCount[<<l.genre, l.type>>] + 1,
                    raised |-> FALSE ]
    /\ assigned' = assigned \cup { [ id |-> entry.id, fp |-> fp, pattern |-> PatternOf(l) ] }
    /\ newCount' = IF entry.repeat THEN newCount
                   ELSE [ newCount EXCEPT ![<<l.genre, l.type>>] = @ + 1 ]

\* register() from the duplicate check on: the stored entry with
\* repeat=True when the fingerprint is in the catalog; else the new id and
\* entry, put into the loaded catalog
RegisterCheck(t, catalog, fp, note_count) ==
    IF Duplicates(catalog, fp) # {}
    THEN /\ th' = [ th EXCEPT ![t].pc = AfterRegister(th[t], RepeatEntry(FirstDuplicate(catalog, fp))),
                              ![t].entry = RepeatEntry(FirstDuplicate(catalog, fp)),
                              ![t].rets = Append(@, RepeatEntry(FirstDuplicate(catalog, fp))) ]
         /\ Returned(th[t], fp, RepeatEntry(FirstDuplicate(catalog, fp)))
    ELSE /\ th' = [ th EXCEPT ![t].pc = "save",
                              ![t].catalog = DictSet(catalog, NewEntry(catalog, th[t].type, th[t].genre,
                                                                       th[t].key, fp, note_count)),
                              ![t].entry = NewEntry(catalog, th[t].type, th[t].genre, th[t].key,
                                                    fp, note_count) ]
         /\ UNCHANGED regHist

\* fp = _fingerprint(notes), and len(notes) for the entry
RegisterNotes(t, catalog, notes) == RegisterCheck(t, catalog, fingerprint(notes), Len(notes))

\* register() on a loaded value that is not a dict of entries:
\* catalog.items() (a list) or entry.get (a number) raises AttributeError.
\* A direct call ends with it; run() passes it on to _exec_drum_build /
\* _exec_midi_gen, which log it and restore builtins.input.
RegisterRaise(t) ==
    /\ th' = [ th EXCEPT ![t] = IdleThread ]
    /\ lastRet' = [ NoRet EXCEPT !.pattern = PatternOf(th[t]), !.type = th[t].type,
                                 !.genre = th[t].genre, !.key = th[t].key,
                                 !.prior = assigned, !.raised = TRUE ]
    /\ builtinsInput' = IF th[t].origin = "gui" THEN th[t].real_input ELSE builtinsInput
    /\ UNCHANGED << assigned, newCount >>

\* register(), first half: catalog = _load() and all up to _save
RegisterLoad(t) ==
    /\ th[t].pc = "load"
    /\ IF LoadedShape(catalogFile) # "mapping"
       THEN RegisterRaise(t)
       ELSE RegisterNotes(t, load(catalogFile), NotesOf(PatternOf(th[t]))) /\ UNCHANGED builtinsInput
    /\ UNCHANGED << catalogFile, historyFile, midiFiles, guardChecked, guardCall,
                    started, lastRun, lastSave, genHist, lastQuery, genCall, entryCall, loopCall >>

\* register(), second half: _save(catalog); return entry
RegisterSave(t) ==
    /\ th[t].pc = "save"
    /\ catalogFile' = save(catalogFile, th[t].catalog)
    /\ lastSave' = [ before |-> load(catalogFile), written |-> th[t].catalog,
                     after |-> load(catalogFile'), entry |-> th[t].entry ]
    /\ th' = [ th EXCEPT ![t].pc = AfterRegister(th[t], th[t].entry),
                         ![t].catalog = << >>,
                         ![t].rets = Append(@, th[t].entry) ]
    /\ Returned(th[t], th[t].entry.fingerprint, th[t].entry)
    /\ UNCHANGED << historyFile, builtinsInput, midiFiles, guardChecked, guardCall, started,
                    lastRun, genHist, lastQuery, genCall, entryCall, loopCall >>

\* The output files with one file written or overwritten; a file's content
\* is the events written, held as the pattern
WriteFile(files, name, pattern) ==
    { f \in files : f.name # name } \cup { [ name |-> name, pattern |-> pattern ] }

\* run(), the end: midi_path = write_midi(...); return the result dict; and
\* back in _exec_drum_build / _exec_midi_gen, finally: builtins.input = _real_input
RunWrite(t) ==
    /\ th[t].pc = "write"
    /\ midiFiles' = WriteFile(midiFiles, MidiName(th[t].entry.id), PatternOf(th[t]))
    /\ lastRun' = [ mode |-> th[t].mode, genre |-> th[t].genre, key |-> th[t].key,
                    rands |-> th[t].rands, rets |-> th[t].rets, entry |-> th[t].entry,
                    path |-> MidiName(th[t].entry.id) ]
    /\ builtinsInput' = th[t].real_input
    /\ th' = [ th EXCEPT ![t] = IdleThread ]
    /\ UNCHANGED << catalogFile, historyFile, guardChecked, guardCall, started, regHist, lastSave,
                    genHist, lastQuery, genCall, entryCall, loopCall >>

\* What the catalog file holds when it does not hold the JSON text of a
\* dict of entries: text that is not JSON, the JSON array [], the JSON
\* object {"x": 1}
DamagedContents ==
    { [ exists |-> TRUE, valid |-> FALSE, shape |-> "none", entries |-> << >> ],
      [ exists |-> TRUE, valid |-> TRUE, shape |-> "list", entries |-> << >> ],
      [ exists |-> TRUE, valid |-> TRUE, shape |-> "numbers", entries |-> << >> ] }

\* The catalog file is damaged (truncated, overwritten, edited by hand):
\* json.loads in _load will raise, or return something else than a dict of
\* entries
Corrupt ==
    /\ catalogFile.exists /\ catalogFile.valid /\ catalogFile.shape = "mapping"
    /\ \E content \in DamagedContents : catalogFile' = content
    /\ UNCHANGED << historyFile, builtinsInput, th, midiFiles, guardChecked, guardCall, started,
                    regHist, lastRun, lastSave, genHist, lastQuery, genCall, entryCall, loopCall >>

\* The process ends and is started again: the worker threads are daemon
\* threads and end with it, whatever they were doing; the files stay
Restart ==
    /\ \E t \in Threads : Busy(t)
    /\ th' = [ t \in Threads |-> IdleThread ]
    /\ builtinsInput' = RealInput
    /\ UNCHANGED << catalogFile, historyFile, midiFiles, guardChecked, guardCall, started,
                    regHist, lastRun, lastSave, genHist, lastQuery, genCall, entryCall, loopCall >>

\* A call list_patterns(genre, pattern_type), between calls of register
ListPatterns(genre, pattern_type) ==
    /\ \A t \in Threads : ~Busy(t)
    /\ lastQuery' = [ op |-> "list_patterns", genre |-> genre, type |-> pattern_type,
                      raised |-> list_patterns(catalogFile, genre, pattern_type).raised,
                      result |-> list_patterns(catalogFile, genre, pattern_type).result,
                      size |-> 0 ]
    /\ UNCHANGED << catalogFile, historyFile, builtinsInput, th, midiFiles, guardChecked, guardCall,
                    started, regHist, lastRun, lastSave, genHist, genCall, entryCall, loopCall >>

\* A call catalog_size(), between calls of register
CatalogSize ==
    /\ \A t \in Threads : ~Busy(t)
    /\ lastQuery' = [ op |-> "catalog_size", genre |-> "", type |-> "",
                      raised |-> catalog_size(catalogFile).raised,
                      result |-> << >>, size |-> catalog_size(catalogFile).result ]
    /\ UNCHANGED << catalogFile, historyFile, builtinsInput, th, midiFiles, guardChecked, guardCall,
                    started, regHist, lastRun, lastSave, genHist, genCall, entryCall, loopCall >>

\* ------------------------------------------------------------------------
\* generator.py: run(), started from the GUI (GENERATOR button, through
\* _exec_generator and _run_mode_safe) or from the command line (main.py)
\* ------------------------------------------------------------------------
\* The names in OUTPUT_DIR.iterdir() that do not start with "."
Listing ==
    { f.name : f \in midiFiles } \cup
    (IF catalogFile.exists THEN { CATALOG_NAME } ELSE {})

\* A click on GENERATOR: the worker thread reads the GUI fields, and
\* _run_mode_safe keeps builtins.input and the directory listing and
\* installs the queued answers
exec_generator(t, genre, key, bpm_field, bars) ==
    /\ ~Busy(t)
    /\ started < MaxRuns
    /\ started' = started + 1
    /\ th' = [ th EXCEPT ![t] =
                 [ IdleThread EXCEPT !.pc = "prompt", !.mode = "generator", !.origin = "gui",
                                     !.before = Listing, !.real_input = builtinsInput ] ]
    /\ builtinsInput' =
         [ kind |-> "answers",
           answers |-> << "3", genre, key, NumberText(get_safe_bpm(bpm_field, genre)), bars >> ]
    /\ UNCHANGED << catalogFile, historyFile, midiFiles, guardChecked, guardCall, regHist, lastRun,
                    lastSave, genHist, lastQuery, genCall, entryCall, loopCall >>

\* Mode 6 of main.py, in a process of its own: the user will type choice
\* and the four answers of typed
main_generator(t, choice, typed) ==
    /\ ~Busy(t)
    /\ started < MaxRuns
    /\ started' = started + 1
    /\ th' = [ th EXCEPT ![t] =
                 [ IdleThread EXCEPT !.pc = "prompt", !.mode = "generator", !.origin = "cli",
                                     !.answers = << choice >> \o typed ] ]
    /\ UNCHANGED << catalogFile, historyFile, builtinsInput, midiFiles, guardChecked, guardCall,
                    regHist, lastRun, lastSave, genHist, lastQuery, genCall, entryCall, loopCall >>

\* The i-th call of input(): next(it, "")
Answer(answers, i) == IF i <= Len(answers) THEN answers[i] ELSE ""

\* run(), the prompts: choice, genre, key, bpm and bars from the five answers
Prompted(answers) ==
    LET genre_in == LOWER(Answer(answers, 2))
        genre    == IF genre_in \in DOMAIN GENRE_DEFAULTS THEN genre_in ELSE "trap"
        key_in   == UPPERKEY(Answer(answers, 3))
        bpm_in   == Answer(answers, 4)
        bars_in  == Answer(answers, 5)
    IN  [ choice |-> IF Answer(answers, 1) = "" THEN "3" ELSE Answer(answers, 1),
          genre  |-> genre,
          key    |-> IF key_in \in DOMAIN NOTES THEN key_in ELSE GENRE_DEFAULTS[genre].key,
          bpm    |-> IF bpm_in # "" /\ bpm_in \in DOMAIN NumberOf THEN NumberOf[bpm_in]
                     ELSE GENRE_DEFAULTS[genre].bpm,
          bars   |-> IF bars_in = "8" THEN 8 ELSE 4 ]

\* Where a run of the generator goes when run() returns: the GUI's
\* _run_mode_safe goes on to look for new files
AfterRun(l) == IF l.origin = "gui" THEN "scan" ELSE "idle"

\* run() from history = _load_history() to the last prompt
RunPrompts(t, answers) ==
    th' = [ th EXCEPT ![t].pc = IF Prompted(answers).choice = "4" THEN "recall"
                                ELSE IF Prompted(answers).choice \in {"1", "3"} THEN "drums"
                                ELSE IF Prompted(answers).choice = "2" THEN "melody"
                                ELSE "save_history",
                      ![t].choice = Prompted(answers).choice,
                      ![t].genre = Prompted(answers).genre,
                      ![t].key = Prompted(answers).key,
                      ![t].bpm = Prompted(answers).bpm,
                      ![t].bars = Prompted(answers).bars,
                      ![t].answers = << >>,
                      ![t].history = load_history(historyFile) ]

\* In the GUI process input() is whatever builtins.input is at the time:
\* a lambda, of this thread or of another, or the real one, which has no
\* one to answer: EOFError ends the run, _run_mode_safe logs it and, in
\* its finally, puts back the builtins.input it kept
GenPrompt(t) ==
    /\ th[t].pc = "prompt"
    /\ IF th[t].origin = "cli"
       THEN RunPrompts(t, th[t].answers) /\ UNCHANGED builtinsInput
       ELSE IF builtinsInput.kind = "real"
       THEN /\ th' = [ th EXCEPT ![t] = IdleThread ]
            /\ builtinsInput' = th[t].real_input
       ELSE /\ RunPrompts(t, builtinsInput.answers)
            /\ builtinsInput' = [ builtinsInput EXCEPT !.answers = IF Len(@) <= 5 THEN << >> ELSE SubSeq(@, 6, Len(@)) ]
    /\ UNCHANGED << catalogFile, historyFile, midiFiles, guardChecked, guardCall, started, regHist,
                    lastRun, lastSave, genHist, lastQuery, genCall, entryCall, loopCall >>

\* history[pid] = {...}: what run() records about a pattern
Meta(pid, pattern_type, l, file) ==
    [ id |-> pid, type |-> pattern_type, genre |-> l.genre, key |-> l.key, bpm |-> l.bpm,
      bars |-> l.bars, seed |-> seed_from_id(pid), file |-> file ]

\* if choice in ["1","3"]: pid, seed, _gen_drums(...) and history[pid]
GenDrums(t) ==
    /\ th[t].pc = "drums"
    /\ midiFiles' = WriteFile(midiFiles,
                              DrumsName(next_id(th[t].history), th[t].genre, th[t].bpm),
                              SeededPattern("drums", seed_from_id(next_id(th[t].history)),
                                            th[t].genre, th[t].key, th[t].bars))
    /\ generated' = generated \cup
         { [ id |-> next_id(th[t].history),
             pattern |-> SeededPattern("drums", seed_from_id(next_id(th[t].history)),
                                       th[t].genre, th[t].key, th[t].bars) ] }
    /\ th' = [ th EXCEPT ![t].pc = IF th[t].choice = "3" THEN "melody" ELSE "save_history",
                         ![t].history =
                            DictSet(@, Meta(next_id(th[t].history), "drums", th[t],
                                            DrumsName(next_id(th[t].history), th[t].genre, th[t].bpm))) ]
    /\ UNCHANGED << catalogFile, historyFile, builtinsInput, guardChecked, guardCall, started,
                    regHist, lastRun, lastSave, recalled, lastQuery, genCall, entryCall, loopCall >>

\* if choice in ["2","3"]: pid, seed, _gen_melody(...) and history[pid]
GenMelody(t) ==
    /\ th[t].pc = "melody"
    /\ midiFiles' = WriteFile(midiFiles,
                              MelodyName(next_id(th[t].history), th[t].genre, th[t].key, th[t].bpm),
                              SeededPattern("melody", seed_from_id(next_id(th[t].history)),
                                            th[t].genre, th[t].key, th[t].bars))
    /\ generated' = generated \cup
         { [ id |-> next_id(th[t].history),
             pattern |-> SeededPattern("melody", seed_from_id(next_id(th[t].history)),
                                       th[t].genre, th[t].key, th[t].bars) ] }
    /\ th' = [ th EXCEPT ![t].pc = "save_history",
                         ![t].history =
                            DictSet(@, Meta(next_id(th[t].history), "melody", th[t],
                                            MelodyName(next_id(th[t].history), th[t].genre,
                                                       th[t].key, th[t].bpm))) ]
    /\ UNCHANGED << catalogFile, historyFile, builtinsInput, guardChecked, guardCall, started,
                    regHist, lastRun, lastSave, recalled, lastQuery, genCall, entryCall, loopCall >>

\* _save_history(history), and run() returns
GenSave(t) ==
    /\ th[t].pc = "save_history"
    /\ historyFile' = save_history(historyFile, th[t].history)
    /\ th' = [ th EXCEPT ![t] = IF AfterRun(th[t]) = "idle" THEN IdleThread
                                ELSE [ th[t] EXCEPT !.pc = AfterRun(th[t]) ] ]
    /\ UNCHANGED << catalogFile, builtinsInput, midiFiles, guardChecked, guardCall, started,
                    regHist, lastRun, lastSave, genHist, lastQuery, genCall, entryCall, loopCall >>

\* The entries of the history with the id
\* A faulty variant of Stored: an id the history does not hold stands for
\* the latest entry
StoredOrLatest(history, recall_id) ==
    IF { i \in 1..Len(history) : history[i].id = recall_id } = {} /\ Len(history) > 0
    THEN { Len(history) }
    ELSE { i \in 1..Len(history) : history[i].id = recall_id }

Stored(history, recall_id) == { i \in 1..Len(history) : history[i].id = recall_id }

\* The stored entry with the id
MetaOf(history, recall_id) == history[CHOOSE i \in Stored(history, recall_id) : TRUE]

\* The file name _gen_drums / _gen_melody build for a stored entry
RecallName(meta) ==
    IF meta.type = "drums" THEN DrumsName(meta.id, meta.genre, meta.bpm)
    ELSE MelodyName(meta.id, meta.genre, meta.key, meta.bpm)

\* The pattern _gen_drums / _gen_melody build for a stored entry
RecallPattern(meta) == SeededPattern(meta.type, meta.seed, meta.genre, meta.key, meta.bars)

\* _recall_pattern: nothing for an empty history or an id it does not
\* hold; else the pattern is generated again from the stored entry
Recall(t, recall_id) ==
    /\ th[t].pc = "recall"
    /\ IF Stored(th[t].history, recall_id) = {}
       THEN UNCHANGED << midiFiles, recalled >>
       ELSE /\ midiFiles' = WriteFile(midiFiles, RecallName(MetaOf(th[t].history, recall_id)),
                                      RecallPattern(MetaOf(th[t].history, recall_id)))
            /\ recalled' = recalled \cup
                 { [ id |-> recall_id, pattern |-> RecallPattern(MetaOf(th[t].history, recall_id)),
                     typed |-> << th[t].genre, th[t].key, th[t].bpm, th[t].bars >> ] }
    /\ th' = [ th EXCEPT ![t] = IF AfterRun(th[t]) = "idle" THEN IdleThread
                                ELSE [ th[t] EXCEPT !.pc = AfterRun(th[t]) ] ]
    /\ UNCHANGED << catalogFile, historyFile, builtinsInput, guardChecked, guardCall, started,
                    regHist, lastRun, lastSave, generated, lastQuery, genCall, entryCall, loopCall >>

\* _run_mode_safe after mod.run: safe_output_path on every new file of the
\* listing (a refusal is logged); finally: builtins.input = _real_input
GuardScan(t) ==
    /\ th[t].pc = "scan"
    /\ guardChecked' = guardChecked \cup
         { [ name |-> fname, ok |-> safe_output_path(OUTPUT_DIR \o << fname >>) ] :
             fname \in Listing \ th[t].before }
    /\ builtinsInput' = th[t].real_input
    /\ th' = [ th EXCEPT ![t] = IdleThread ]
    /\ UNCHANGED << catalogFile, historyFile, midiFiles, guardCall, started, regHist, lastRun,
                    lastSave, genHist, lastQuery, genCall, entryCall, loopCall >>

\* ------------------------------------------------------------------------
\* safe_output_path called on a path
\* ------------------------------------------------------------------------
GuardCall ==
    /\ guardCall.result = "none"
    /\ guardCall.path # << >>
    /\ guardCall' = [ guardCall EXCEPT !.result =
                        IF safe_output_path(guardCall.path) THEN "returned" ELSE "PermissionError" ]
    /\ UNCHANGED << catalogFile, historyFile, builtinsInput, th, midiFiles, guardChecked, started,
                    regHist, lastRun, lastSave, genHist, lastQuery, genCall, entryCall, loopCall >>

\* ------------------------------------------------------------------------
\* The generating functions called on their own
\* ------------------------------------------------------------------------
\* The function fn returns: notes is the list it built, written the events
\* it or its caller's write_midi gives to addNote
GenReturn(fn, notes, written) ==
    /\ genCall.fn = fn
    /\ ~genCall.done
    /\ genCall' = [ genCall EXCEPT !.done = TRUE, !.notes = notes, !.written = written ]
    /\ UNCHANGED << catalogFile, historyFile, builtinsInput, th, midiFiles, guardChecked, guardCall,
                    started, regHist, lastRun, lastSave, genHist, lastQuery, entryCall, loopCall >>

\* drum_gen.generate(genre); write_midi writes every hit
CallGenerate ==
    GenReturn("drum_gen.generate", generate(genCall.genre, genCall.rand),
              generate(genCall.genre, genCall.rand))

\* melody_gen.generate(genre, key, scale, bars); write_midi writes every note
CallMelodyGenerate ==
    GenReturn("melody_gen.generate",
              melody_generate(genCall.genre, genCall.key, genCall.scale, genCall.bars, genCall.rand),
              melody_generate(genCall.genre, genCall.key, genCall.scale, genCall.bars, genCall.rand))

\* _gen_drums(output_dir, pid, seed, genre, bpm, bars)
CallGenDrums ==
    GenReturn("_gen_drums", gen_drums(genCall.seed, genCall.genre, genCall.bars),
              gen_drums(genCall.seed, genCall.genre, genCall.bars))

\* _gen_melody(output_dir, pid, seed, genre, key, bpm, bars)
CallGenMelody ==
    GenReturn("_gen_melody",
              gen_melody_notes(genCall.seed, genCall.genre, genCall.key, genCall.bars),
              gen_melody(genCall.seed, genCall.genre, genCall.key, genCall.bars))

\* notes.sort(key=lambda x: x[0]) and the pass over same-pitch notes:
\* written is the list `clean'
CallClean ==
    GenReturn("clean", genCall.notes, GenClean(SortByKey(genCall.notes), 1, << >>, << >>))

\* ------------------------------------------------------------------------
\* The generating functions followed pass by pass
\* ------------------------------------------------------------------------
LoopFrame ==
    UNCHANGED << catalogFile, historyFile, builtinsInput, th, midiFiles, guardChecked, guardCall,
                 started, regHist, lastRun, lastSave, genHist, lastQuery, genCall, entryCall >>

\* The code before the loop: melody_gen.generate draws note_count and
\* builds the contour, _gen_melody draws prev_pitch
LoopBegin ==
    /\ loopCall.fn # ""
    /\ ~loopCall.begun
    /\ loopCall' =
         IF loopCall.fn = "melody_gen.generate"
         THEN LET dna == IF loopCall.genre \in DOMAIN MELODY_DNA THEN MELODY_DNA[loopCall.genre]
                         ELSE MELODY_DNA["trap"]
                  c   == build_contour(dna.contour,
                                       RandInt(loopCall.rand, 0, dna.note_count[1], dna.note_count[2]),
                                       3 * Len(SelectedIntervals(loopCall.scale)), loopCall.rand, 1)
              IN  [ loopCall EXCEPT !.begun = TRUE, !.i = 1, !.indices = c.indices, !.pos = c.pos ]
         ELSE IF loopCall.fn = "_gen_melody"
         THEN [ loopCall EXCEPT !.begun = TRUE, !.pos = 1,
                                !.prev = GenScale(loopCall.genre, loopCall.key)
                                           [RandInt(loopCall.rand, 0, 0,
                                                    Len(GenScale(loopCall.genre, loopCall.key)) \div 2) + 1] ]
         ELSE [ loopCall EXCEPT !.begun = TRUE ]
    /\ LoopFrame

\* The pass of _gen_melody's loop that the call is at
SeededPass ==
    GenMelodyStep(GenMelodyDna(loopCall.genre), GenScale(loopCall.genre, loopCall.key),
                  GenRoot(loopCall.key), loopCall.prev, loopCall.beat, loopCall.bars * 4 * Unit,
                  loopCall.rand, loopCall.pos)

\* _gen_melody: the test of the while loop and one pass, or the loop is
\* left and the root note appended
GenMelodyIter ==
    /\ loopCall.fn = "_gen_melody"
    /\ loopCall.begun /\ ~loopCall.done
    /\ loopCall' = [ loopCall EXCEPT !.done = SeededPass.stop,
                                     !.iters = IF SeededPass.stop THEN @ ELSE @ + 1,
                                     !.notes = @ \o SeededPass.notes,
                                     !.prev = SeededPass.prev,
                                     !.beat = SeededPass.beat,
                                     !.pos = SeededPass.pos ]
    /\ LoopFrame

\* The pass of melody_gen.generate's loop that the call is at
AmbientPass ==
    MelodyStep(IF loopCall.genre \in DOMAIN MELODY_DNA THEN MELODY_DNA[loopCall.genre]
               ELSE MELODY_DNA["trap"],
               build_scale(GenRoot(loopCall.key), SelectedIntervals(loopCall.scale), 3),
               loopCall.indices, loopCall.i, loopCall.notes, loopCall.beat,
               loopCall.bars * 4 * Unit, loopCall.rand, loopCall.pos)

\* melody_gen.generate: one pass of the for loop, or the loop is left
MelodyIter ==
    /\ loopCall.fn = "melody_gen.generate"
    /\ loopCall.begun /\ ~loopCall.done
    /\ loopCall' = [ loopCall EXCEPT !.done = AmbientPass.stop,
                                     !.iters = IF AmbientPass.stop THEN @ ELSE @ + 1,
                                     !.i = IF AmbientPass.stop THEN @ ELSE @ + 1,
                                     !.notes = AmbientPass.notes,
                                     !.beat = AmbientPass.beat,
                                     !.pos = AmbientPass.pos ]
    /\ LoopFrame

\* drum_gen.generate and _gen_drums: one pass of "for bar in range(...)",
\* or the loop is left.  The passes inside a bar run over fixed lists of
\* steps; the hits they append are not kept here
DrumsIter ==
    /\ loopCall.fn \in {"drum_gen.generate", "_gen_drums"}
    /\ loopCall.begun /\ ~loopCall.done
    /\ loopCall' =
         IF loopCall.i >= loopCall.bars
         THEN [ loopCall EXCEPT !.done = TRUE ]
         ELSE [ loopCall EXCEPT !.iters = @ + 1, !.i = @ + 1 ]
    /\ LoopFrame

LoopNext == LoopBegin \/ GenMelodyIter \/ MelodyIter \/ DrumsIter

\* ------------------------------------------------------------------------
\* Specifications
\* ------------------------------------------------------------------------
\* The steps of register() in any thread
RegSteps == \E t \in Threads : RegisterLoad(t) \/ RegisterSave(t)

\* The steps of drum_gen.run and melody_gen.run in any thread
RunSteps ==
    \/ RegSteps
    \/ \E t \in Threads : (\E r \in AmbientSources : RunGenerate(t, r)) \/ RunWrite(t)

\* The steps of generator.run in any thread or process, and of
\* _run_mode_safe after it
GenSteps ==
    \E t \in Threads : GenPrompt(t) \/ GenDrums(t) \/ GenMelody(t) \/ GenSave(t) \/ GuardScan(t)

\* A session of the application with non-concurrent access: one worker
\* thread, started again only when idle
SpecSeq ==
    Init /\ [][RunSteps
               \/ \E mode \in PatternTypes, genre \in ModelGenres, key \in ModelKeys :
                     run_in_thread(1, mode, genre, key)]_vars

\* register() called directly, one call at a time, with any arguments
SeqCall ==
    \E pattern_type \in PatternTypes, genre \in ModelGenres, key \in CallKeys, notes \in NoteLists :
        CallRegister(1, pattern_type, genre, key, notes)

SpecReg == Init /\ [][SeqCall \/ RegSteps]_vars

\* The same, with process restarts and corruptions of the catalog file
SpecRecover == Init /\ [][SeqCall \/ RegSteps \/ Corrupt \/ Restart]_vars

\* register() called directly, one call at a time, with process restarts
SpecRestart == Init /\ [][SeqCall \/ RegSteps \/ Restart]_vars

\* Calls of register, list_patterns and catalog_size, one at a time, on a
\* catalog file that can be damaged between them
SpecDamaged ==
    Init /\ [][RegSteps \/ Corrupt \/ CatalogSize
               \/ (\E genre \in ModelGenres, notes \in NoteLists :
                     CallRegister(1, "drum", genre, "F", notes))
               \/ (\E genre \in {"", "trap"}, pattern_type \in {"", "drum"} :
                     ListPatterns(genre, pattern_type))]_vars

\* register() called directly from two threads or processes at a time
SpecPar ==
    Init /\ [][RegSteps
               \/ \E t \in Threads, pattern_type \in PatternTypes, genre \in ModelGenres,
                     notes \in NoteLists :
                     CallRegister(t, pattern_type, genre, "F", notes)]_vars

\* A click on GENERATOR, whatever the worker threads are doing
GenClick ==
    \E t \in Threads, gui \in GuiSettings :
        exec_generator(t, gui.genre, gui.key, gui.bpm, gui.bars)

\* A click on DRUM BUILD or MIDI GEN, whatever the worker threads are doing
Click ==
    \E t \in Threads, mode \in PatternTypes, genre \in ModelGenres, key \in ModelKeys :
        run_in_thread(t, mode, genre, key)

\* The generator, run from the GUI and, in a second process, from the
\* command line on the same outputs directory
SpecGen ==
    Init /\ [][GenClick \/ GenSteps
               \/ (\E choice \in CliChoices, typed \in TypedAnswers : main_generator(2, choice, typed))
               \/ (\E t \in Threads, recall_id \in RecallIds : Recall(t, recall_id))]_vars

\* Runs of the generator one after the other, from the GUI or from the
\* command line
SpecGenSeq ==
    Init /\ [][GenSteps
               \/ (\E gui \in GuiSettings : exec_generator(1, gui.genre, gui.key, gui.bpm, gui.bars))
               \/ (\E choice \in CliChoices, typed \in TypedAnswers : main_generator(1, choice, typed))
               \/ (\E recall_id \in RecallIds : Recall(1, recall_id))]_vars

\* A session of the GUI application: clicks on DRUM BUILD, MIDI GEN and
\* GENERATOR in any order and at any time
Next ==
    \/ (started < MaxClicks /\ Click)
    \/ (started < MaxClicks /\ GenClick)
    \/ RunSteps
    \/ GenSteps

Spec == Init /\ [][Next]_vars

\* Calls of safe_output_path
SpecGuard == InitGuard /\ [][GuardCall]_vars

\* The entry point returns, having generated with genre, recorded genre
\* `recorded' and written bpm
EntryReturn(fn, genre, recorded, bpm) ==
    /\ entryCall.fn = fn
    /\ ~entryCall.done
    /\ entryCall' = [ entryCall EXCEPT !.done = TRUE, !.genre = genre, !.recorded = recorded,
                                       !.bpm = bpm ]
    /\ UNCHANGED << catalogFile, historyFile, builtinsInput, th, midiFiles, guardChecked,
                    guardCall, started, regHist, lastRun, lastSave, genHist, lastQuery, genCall, loopCall >>

\* app.py _get_inputs: the genre of the dropdown and _get_safe_bpm()
GetInputs ==
    EntryReturn("app", entryCall.genre_in, entryCall.genre_in,
                get_safe_bpm(entryCall.bpm_in, entryCall.genre_in))

\* generator.run, the genre and BPM prompts: the genre names the files and
\* is kept in the history
GeneratorRun ==
    EntryReturn("generator.run",
                Prompted(<< "1", entryCall.genre_in, "", entryCall.bpm_in, "" >>).genre,
                Prompted(<< "1", entryCall.genre_in, "", entryCall.bpm_in, "" >>).genre,
                Prompted(<< "1", entryCall.genre_in, "", entryCall.bpm_in, "" >>).bpm)

\* midi_gen.run, the genre and BPM prompts (the BPM defaults of midi_gen's
\* GENRE_DEFAULTS are those of generator's)
MidiGenRun ==
    EntryReturn("midi_gen.run", match_genre(LOWER(entryCall.genre_in)),
                match_genre(LOWER(entryCall.genre_in)),
                PromptedBpm(entryCall.bpm_in,
                            GENRE_DEFAULTS[match_genre(LOWER(entryCall.genre_in))].bpm))

\* drum_build.run, the genre and BPM prompts (the BPMs of PATTERNS are
\* those of BPM_MAP)
DrumBuildRun ==
    EntryReturn("drum_build.run", resolve_genre(LOWER(entryCall.genre_in)),
                resolve_genre(LOWER(entryCall.genre_in)),
                PromptedBpm(entryCall.bpm_in, BPM_MAP[resolve_genre(LOWER(entryCall.genre_in))]))

\* drum_gen.run(output_dir, genre, bpm): generate(genre) takes
\* GENRE_DNA.get(genre, GENRE_DNA["trap"]), register("drum", genre, ...)
\* the genre as passed
DrumGenRun ==
    EntryReturn("drum_gen.run",
                IF entryCall.genre_in \in DOMAIN GENRE_DNA THEN entryCall.genre_in ELSE "trap",
                entryCall.genre_in, NumberOf[entryCall.bpm_in])

\* melody_gen.run(output_dir, genre, key, scale, bpm, bars): the same
MelodyGenRun ==
    EntryReturn("melody_gen.run",
                IF entryCall.genre_in \in DOMAIN MELODY_DNA THEN entryCall.genre_in ELSE "trap",
                entryCall.genre_in, NumberOf[entryCall.bpm_in])

\* Runs of the pass over same-pitch notes
SpecClean == InitClean /\ [][CallClean]_vars

\* Calls of the generating functions followed pass by pass; a call that
\* has been made keeps running
SpecLoop == InitLoop /\ [][LoopNext]_vars /\ WF_vars(LoopNext)

\* Runs of the entry points
SpecEntry ==
    InitEntry /\ [][GetInputs \/ GeneratorRun \/ MidiGenRun \/ DrumBuildRun \/ DrumGenRun
                    \/ MelodyGenRun]_vars

\* Calls of the generating functions
SpecGenerate ==
    InitGenerate /\ [][CallGenerate \/ CallMelodyGenerate \/ CallGenDrums \/ CallGenMelody]_vars

\* ------------------------------------------------------------------------
\* Properties of register() and run() under non-concurrent access
\* ------------------------------------------------------------------------
\* (round(t, 3), p, round(d, 3)) of every note, in order
RoundedTriples(notes) ==
    [ i \in 1..Len(notes) |-> << Round3(notes[i][1]), notes[i][2], Round3(notes[i][3]) >> ]

\* C1 (repeat detection): when register() returns, for every earlier
\* return of register() for a note list with the same rounded (time, pitch,
\* duration) triples in the same order, this return has repeat=True and
\* the id of that earlier return -- whatever type, genre and key it passed.
C1_RepeatDetection ==
    \A a \in lastRet.prior :
        RoundedTriples(NotesOf(a.pattern)) = RoundedTriples(NotesOf(lastRet.pattern))
            => lastRet.entry.repeat /\ lastRet.entry.id = a.id

\* A later call with times and durations that differ before rounding, and
\* with another type and genre than the stored entry, got the stored id
C1_Witness ==
    /\ lastRet.entry.repeat
    /\ lastRet.pattern.given = NL1r
    /\ lastRet.type # lastRet.entry.type
    /\ lastRet.genre # lastRet.entry.genre
    /\ lastRet.key # lastRet.entry.key
    /\ \E a \in lastRet.prior : a.pattern.given = NL1 /\ a.id = lastRet.entry.id

\* The id {GENRE}_{TYPE}_{k:04d} for the genres and types of the model, k < 10
ExpectedId(genre, pattern_type, k) ==
    << IF genre = "trap" THEN "TRAP" ELSE "HIP_HOP",
       IF pattern_type = "drum" THEN "DRUM" ELSE "MELODY",
       << 0, 0, 0, k >> >>

\* C2 (id numbering): a register() return that is a new registration, the
\* k-th new one returned for its (genre, type) pair, k counted from 1,
\* carries the id {GENRE}_{TYPE}_{k:04d}; so the ids of one pair are
\* pairwise distinct and increasing, however registrations of other pairs
\* and repeats are interleaved.
C2_IdNumbering ==
    (lastRet.entry # NoEntry /\ ~lastRet.entry.repeat)
        => /\ lastRet.number >= 1
           /\ lastRet.entry.id = ExpectedId(lastRet.genre, lastRet.type, lastRet.number)

\* The second new registration of a pair, made after a repeat and after a
\* registration for another pair
C2_Witness ==
    /\ ~lastRet.entry.repeat
    /\ lastRet.number = 2
    /\ lastRet.entry.id = ExpectedId(lastRet.genre, lastRet.type, 2)
    /\ \E a \in lastRet.prior : a.id[1] # lastRet.entry.id[1] \/ a.id[2] # lastRet.entry.id[2]

\* The note list with every velocity replaced, note i getting vs[i]
WithVelocities(notes, vs) ==
    [ i \in 1..Len(notes) |-> << notes[i][1], notes[i][2], notes[i][3], vs[i] >> ]

\* The two lists differ at most in the velocity components
OnlyVelocitiesDiffer(m, n) ==
    /\ Len(m) = Len(n)
    /\ \A i \in 1..Len(m) : m[i][1] = n[i][1] /\ m[i][2] = n[i][2] /\ m[i][3] = n[i][3]

\* C4 (fingerprint stability): _fingerprint of the note list a register()
\* call was given equals _fingerprint of the same list with other
\* velocities (all 1, all 127, or each one changed by its position); and a
\* register() return for a list that differs at most in velocities from a
\* list registered before has repeat=True and the id of that registration.
C4_FingerprintStability ==
    lastRet.entry # NoEntry =>
        LET notes == NotesOf(lastRet.pattern)
        IN  /\ lastRet.fp = fingerprint(notes)
            /\ \A v \in {1, 127} :
                 fingerprint(WithVelocities(notes, [ i \in 1..Len(notes) |-> v ])) = lastRet.fp
            /\ fingerprint(WithVelocities(notes,
                   [ i \in 1..Len(notes) |-> ((notes[i][4] + i) % 127) + 1 ])) = lastRet.fp
            /\ \A a \in lastRet.prior :
                 OnlyVelocitiesDiffer(NotesOf(a.pattern), notes)
                     => lastRet.entry.repeat /\ lastRet.entry.id = a.id

\* A generated drum pattern, converted by _hits_to_notes, that differs from
\* a catalogued one in a velocity only, was reported as a repeat of its id
C4_Witness ==
    /\ lastRet.entry.repeat
    /\ lastRet.pattern.mode = "drum"
    /\ \E a \in lastRet.prior :
         /\ a.id = lastRet.entry.id
         /\ NotesOf(a.pattern) # NotesOf(lastRet.pattern)
         /\ OnlyVelocitiesDiffer(NotesOf(a.pattern), NotesOf(lastRet.pattern))

\* C5 (bounded retry): a run performs generate+register once, a second
\* time only if the first register returned repeat=True, and never a third
\* time; what it returns and writes is the result of its last register and
\* generate, also when that second result is again a repeat.
C5_BoundedRetry ==
    /\ \A t \in Threads :
         th[t].mode \in PatternTypes =>
            /\ Len(th[t].rands) <= 2
            /\ Len(th[t].rets) <= 2
            /\ Len(th[t].rets) <= Len(th[t].rands)
            /\ Len(th[t].rands) = 2 => th[t].rets # << >> /\ th[t].rets[1].repeat
            /\ (th[t].pc = "generate" /\ th[t].rets # << >>) => th[t].rets[1].repeat
            /\ th[t].pc = "write" =>
                  /\ Len(th[t].rets) = Len(th[t].rands)
                  /\ (Len(th[t].rets) = 1 => ~th[t].rets[1].repeat)
    /\ lastRun # NoRun =>
         /\ Len(lastRun.rets) \in {1, 2}
         /\ Len(lastRun.rands) = Len(lastRun.rets)
         /\ (Len(lastRun.rets) = 2 <=> lastRun.rets[1].repeat)
         /\ lastRun.entry = lastRun.rets[Len(lastRun.rets)]
         /\ lastRun.path = MidiName(lastRun.entry.id)

\* A run whose first and second register both returned a repeat has
\* returned the second result
C5_Witness ==
    /\ Len(lastRun.rets) = 2
    /\ lastRun.rets[1].repeat
    /\ lastRun.rets[2].repeat
    /\ lastRun.entry = lastRun.rets[2]

\* ------------------------------------------------------------------------
\* Properties of the catalog over restarts and corrupt-catalog recoveries
\* ------------------------------------------------------------------------
\* C3 (id stability): an id that register() has once returned for a
\* fingerprint is never returned for another fingerprint, nor stored in
\* the catalog file with another fingerprint.
C3_IdStability ==
    /\ \A a, b \in assigned : a.id = b.id => a.fp = b.fp
    /\ \A a \in assigned : \A i \in 1..Len(catalogFile.entries) :
         catalogFile.entries[i].id = a.id => catalogFile.entries[i].fingerprint = a.fp

\* register() has returned, as a new registration, an id it had returned
\* before for another fingerprint
C3_Witness ==
    /\ ~lastRet.entry.repeat
    /\ \E a \in lastRet.prior : a.id = lastRet.entry.id /\ a.fp # lastRet.fp

\* ------------------------------------------------------------------------
\* Properties of the generator's recall
\* ------------------------------------------------------------------------
\* C6 (deterministic recall): when the runs of the generator have ended,
\* every recall of an id has built the same hit or note list as every
\* generation that was given this id and as every other recall of the id,
\* whatever was typed in the recalling session and whatever was generated
\* in between.
C6_DeterministicRecall ==
    (\A t \in Threads : ~Busy(t)) => \A r \in recalled :
        /\ \A g \in generated :
             g.id = r.id => SeededEventsOf(g.pattern) = SeededEventsOf(r.pattern)
        /\ \A q \in recalled :
             q.id = r.id => SeededEventsOf(q.pattern) = SeededEventsOf(r.pattern)

\* An id was recalled, and a generation that was given this id had built
\* another list than the recall
C6_Witness ==
    \E r \in recalled, g \in generated :
        /\ \A t \in Threads : ~Busy(t)
        /\ g.id = r.id
        /\ g.pattern.mode = r.pattern.mode
        /\ SeededEventsOf(g.pattern) # SeededEventsOf(r.pattern)

\* ------------------------------------------------------------------------
\* Properties of the workspace guard
\* ------------------------------------------------------------------------
\* The location is the output directory or below it
InsideOutputDir(location) ==
    /\ Len(location) >= Len(resolve(OUTPUT_DIR))
    /\ SubSeq(location, 1, Len(resolve(OUTPUT_DIR))) = resolve(OUTPUT_DIR)

\* C7 (guard decision): safe_output_path returns the path when it resolves
\* to a location inside the output directory, and raises PermissionError
\* when it resolves to a location outside it.
C7_GuardDecision ==
    guardCall.result # "none" =>
        (guardCall.result = "returned" <=> InsideOutputDir(resolve(guardCall.path)))

\* safe_output_path has returned a path that resolves to a location
\* outside the output directory
C7_Witness ==
    /\ guardCall.result = "returned"
    /\ ~InsideOutputDir(resolve(guardCall.path))

\* The names safe_output_path has been called on and has returned
GuardPassed == { g.name : g \in { c \in guardChecked : c.ok } }

\* C8 (guard ordering): a step of the application that writes an output
\* file writes only files whose path safe_output_path has checked, and
\* accepted, before that step.
C8_GuardBeforeWrite ==
    [][ \A f \in midiFiles' \ midiFiles : f.name \in GuardPassed ]_vars

\* The outputs directory holds a file that safe_output_path was never
\* called on
C8_Witness ==
    \E f \in midiFiles : \A c \in guardChecked : c.name # f.name

\* ------------------------------------------------------------------------
\* Properties under concurrent access
\* ------------------------------------------------------------------------
\* The ids of the entries of a catalog
IdsOf(catalog) == { catalog[i].id : i \in 1..Len(catalog) }

\* C9 (lost update): _save writes back the whole catalog that the saving
\* register() loaded and changed in memory: after a save the file holds
\* exactly that catalog, so an entry that was stored between the load and
\* the save of this register() is in the file no longer (last writer wins).
C9_LostUpdate ==
    lastSave # NoSave =>
        /\ lastSave.after = lastSave.written
        /\ \A i \in 1..Len(lastSave.before) :
             lastSave.before[i].id \notin IdsOf(lastSave.written)
                 => lastSave.before[i].id \notin IdsOf(lastSave.after)

\* Two concurrent registrations of distinct new fingerprints have both
\* returned a new entry, and the catalog file holds only one of the two
C9_Witness ==
    /\ \A t \in Threads : ~Busy(t)
    /\ Len(load(catalogFile)) = 1
    /\ \E a, b \in assigned :
         /\ a.fp # b.fp
         /\ a.id # b.id
         /\ load(catalogFile)[1].id = b.id /\ load(catalogFile)[1].fingerprint = b.fp

\* C10 (single generation in flight): at most one worker thread is
\* executing a generation at any time.
C10_SingleInFlight == Cardinality({ t \in Threads : Busy(t) }) <= 1

\* Two worker threads are both between the load and the save of the
\* catalog in register()
C10_Witness == \A t \in Threads : th[t].pc = "save"

\* ------------------------------------------------------------------------
\* Properties of the catalog file
\* ------------------------------------------------------------------------
\* C11 (catalog persistence): under non-concurrent access, the _save of a
\* register() that creates a new entry leaves in the file every entry the
\* file held before, unchanged and in place, followed by exactly the one
\* new entry, whose id none of them has (the size grows by one); and the
\* file keeps that catalog, whatever is loaded from it later and also after
\* a process restart, until the next _save.
C11_CatalogPersistence ==
    lastSave # NoSave =>
        /\ lastSave.after = Append(lastSave.before, lastSave.entry)
        /\ Len(lastSave.after) = Len(lastSave.before) + 1
        /\ lastSave.entry.id \notin IdsOf(lastSave.before)
        /\ ~lastSave.entry.repeat
        /\ load(catalogFile) = lastSave.after

\* A new entry has been saved into a catalog that held an entry, and a
\* later call of register() has loaded the catalog of two entries from
\* the file
C11_Witness ==
    /\ Len(lastSave.before) = 1
    /\ Len(load(catalogFile)) = 2
    /\ \E t \in Threads : th[t].pc = "save" /\ Len(th[t].catalog) = 3

\* C12 (a repeat leaves the catalog untouched): a register() call that
\* finds the fingerprint of its notes in the catalog it loads does not
\* write the catalog file, so every stored entry stays as it was, and
\* returns the stored entry with that fingerprint: its id, type, genre, key,
\* fingerprint and note_count as stored, and repeat set to True.
C12_RepeatUntouched ==
    [][ \A t \in Threads :
          ( /\ th[t].pc = "load"
            /\ th'[t] # th[t]
            /\ Duplicates(load(catalogFile), fingerprint(NotesOf(PatternOf(th[t])))) # {} )
          => /\ catalogFile' = catalogFile
             /\ th'[t].pc # "save"
             /\ lastRet'.entry.repeat
             /\ \E i \in 1..Len(load(catalogFile)) :
                  /\ load(catalogFile)[i].fingerprint = fingerprint(NotesOf(PatternOf(th[t])))
                  /\ lastRet'.entry.id = load(catalogFile)[i].id
                  /\ lastRet'.entry.type = load(catalogFile)[i].type
                  /\ lastRet'.entry.genre = load(catalogFile)[i].genre
                  /\ lastRet'.entry.key = load(catalogFile)[i].key
                  /\ lastRet'.entry.fingerprint = load(catalogFile)[i].fingerprint
                  /\ lastRet'.entry.note_count = load(catalogFile)[i].note_count
                  /\ ~load(catalogFile)[i].repeat ]_vars

\* register() has returned a repeat to a call whose type, genre and key
\* all differ from those of the stored entry it returned
C12_Witness ==
    /\ lastRet.entry.repeat
    /\ lastRet.type # lastRet.entry.type
    /\ lastRet.genre # lastRet.entry.genre
    /\ lastRet.key # lastRet.entry.key
    /\ \E i \in 1..Len(load(catalogFile)) : load(catalogFile)[i] = [ lastRet.entry EXCEPT !.repeat = FALSE ]

\* C13 (a corrupt catalog is self-healing): whenever the catalog file
\* exists and its content is not parseable as JSON or is not the mapping of
\* ids to entries, register, list_patterns and catalog_size raise no error
\* and do what they do on an empty catalog: register goes on to save a
\* catalog of just its new entry, numbered 1; list_patterns returns the
\* empty list; catalog_size returns 0.
C13_CorruptSelfHealing ==
    [][ (catalogFile \in DamagedContents) =>
          ( /\ \A t \in Threads :
                 (th[t].pc = "load" /\ th'[t] # th[t]) =>
                     ( /\ th'[t].pc = "save"
                       /\ th'[t].entry = NewEntry(<< >>, th[t].type, th[t].genre, th[t].key,
                                                  fingerprint(NotesOf(PatternOf(th[t]))),
                                                  Len(NotesOf(PatternOf(th[t]))))
                       /\ th'[t].catalog = << th'[t].entry >> )
            /\ (lastQuery' # lastQuery) =>
                 ( /\ ~lastQuery'.raised
                   /\ (lastQuery'.op = "list_patterns") =>
                        (lastQuery'.result =
                             list_patterns(NoFile, lastQuery'.genre, lastQuery'.type).result)
                   /\ (lastQuery'.op = "catalog_size") =>
                        (lastQuery'.size = catalog_size(NoFile).result) ) )
      ]_vars

\* The catalog file holds the JSON array [], and register and
\* list_patterns have both raised on it
C13_Witness ==
    /\ catalogFile.exists /\ catalogFile.valid /\ catalogFile.shape = "list"
    /\ lastRet.raised
    /\ lastQuery.op = "list_patterns" /\ lastQuery.raised

\* ------------------------------------------------------------------------
\* Properties of the generated patterns
\* ------------------------------------------------------------------------
\* C14 (grid bounds): every hit of a generated drum pattern of B bars, as
\* built and as written, has 0 <= step < 16 * B, for every genre, known or
\* not, and every outcome of the random draws (B = 2 for drum_gen.generate,
\* B = bars for _gen_drums).
C14_GridBounds ==
    (genCall.done /\ genCall.fn \in {"drum_gen.generate", "_gen_drums"}) =>
        /\ \A i \in 1..Len(genCall.notes) :
             0 <= genCall.notes[i][1] /\ genCall.notes[i][1] < 16 * genCall.bars
        /\ \A i \in 1..Len(genCall.written) :
             0 <= genCall.written[i][1] /\ genCall.written[i][1] < 16 * genCall.bars

\* drum_gen.generate has returned, for a genre it does not know, a pattern
\* with hits on the first and on the last step of the grid
C14_Witness ==
    /\ genCall.done /\ genCall.fn = "drum_gen.generate"
    /\ genCall.genre \notin DOMAIN GENRE_DNA
    /\ \E i, j \in 1..Len(genCall.notes) : genCall.notes[i][1] = 0 /\ genCall.notes[j][1] = 31

\* C18 (mandatory hits): in each of the two bars of a pattern of
\* drum_gen.generate there is a kick on every mandatory kick step of the
\* genre's profile with a velocity in its main kick range, and a snare on
\* every mandatory snare step with a velocity in its main snare range; for
\* trap: kicks on steps 0 and 8 with velocity 100..115, snares on steps 4
\* and 12 with velocity 95..105.
C18_MandatoryHits ==
    (genCall.done /\ genCall.fn = "drum_gen.generate") =>
        LET dna == IF genCall.genre \in DOMAIN GENRE_DNA THEN GENRE_DNA[genCall.genre]
                   ELSE GENRE_DNA["trap"]
            Has(step, inst, lo, hi) ==
                \E i \in 1..Len(genCall.notes) :
                    /\ genCall.notes[i][1] = step
                    /\ genCall.notes[i][2] = inst
                    /\ lo <= genCall.notes[i][3] /\ genCall.notes[i][3] <= hi
        IN  \A bar \in 0..1 :
              /\ \A k \in 1..Len(dna.kick.mandatory) :
                   Has(dna.kick.mandatory[k] + 16 * bar, "kick",
                       dna.kick.velocity_main[1], dna.kick.velocity_main[2])
              /\ \A k \in 1..Len(dna.snare.mandatory) :
                   Has(dna.snare.mandatory[k] + 16 * bar, "snare",
                       dna.snare.velocity_main[1], dna.snare.velocity_main[2])
              /\ genCall.genre = "trap" =>
                   /\ Has(0 + 16 * bar, "kick", 100, 115) /\ Has(8 + 16 * bar, "kick", 100, 115)
                   /\ Has(4 + 16 * bar, "snare", 95, 105) /\ Has(12 + 16 * bar, "snare", 95, 105)

\* drum_gen.generate has returned a trap pattern that also has variable
\* kicks (velocity below the main range) and ghost notes
C18_Witness ==
    /\ genCall.done /\ genCall.fn = "drum_gen.generate" /\ genCall.genre = "trap"
    /\ \E i, j \in 1..Len(genCall.notes) :
         /\ genCall.notes[i][2] = "kick" /\ genCall.notes[i][3] < 100
         /\ genCall.notes[j][2] = "ghost"

\* C15 (melody span bound): every note of a generated melody of B bars, in
\* the list the generator built and in the events written to the MIDI
\* file, has start_beat + duration_beats <= 4 * B, for every genre, key,
\* scale and outcome of the random draws.
C15_MelodySpan ==
    (genCall.done /\ genCall.fn \in {"melody_gen.generate", "_gen_melody"}) =>
        /\ \A i \in 1..Len(genCall.notes) :
             genCall.notes[i][1] + genCall.notes[i][3] <= 4 * genCall.bars * Unit
        /\ \A i \in 1..Len(genCall.written) :
             genCall.written[i][1] + genCall.written[i][3] <= 4 * genCall.bars * Unit

\* _gen_melody has built a list that keeps within the bars and has written
\* a note that ends after the last bar
C15_Witness ==
    /\ genCall.done /\ genCall.fn = "_gen_melody"
    /\ \A i \in 1..Len(genCall.notes) :
         genCall.notes[i][1] + genCall.notes[i][3] <= 4 * genCall.bars * Unit
    /\ \E i \in 1..Len(genCall.written) :
         genCall.written[i][1] + genCall.written[i][3] > 4 * genCall.bars * Unit

\* C16 (cadential closure): every generated melody ends on the scale
\* root: the last note of the list, which is the last by start beat, has
\* the pitch of the key's root moved by one octave (root + 12 or root - 12),
\* for every genre, key, scale, bar count and outcome of the random draws.
C16_CadentialClosure ==
    (genCall.done /\ genCall.fn \in {"melody_gen.generate", "_gen_melody"}) =>
        LET root == IF genCall.key \in DOMAIN NOTES THEN NOTES[genCall.key] ELSE 65
        IN  /\ genCall.notes # << >>
            /\ \A i \in 1..Len(genCall.notes) :
                 genCall.notes[i][1] <= genCall.notes[Len(genCall.notes)][1]
            /\ genCall.notes[Len(genCall.notes)][2] \in {root + 12, root - 12}

\* melody_gen.generate has returned a melody whose last note is not the
\* root in any octave
C16_Witness ==
    /\ genCall.done /\ genCall.fn = "melody_gen.generate"
    /\ genCall.notes # << >>
    /\ genCall.notes[Len(genCall.notes)][2] % 12 #
           (IF genCall.key \in DOMAIN NOTES THEN NOTES[genCall.key] ELSE 65) % 12

\* The scale a melody call selects: SCALES.get(scale, minor) in
\* melody_gen.generate, the scale of the genre's defaults in _gen_melody
SelectedScale(call) ==
    IF call.fn = "_gen_melody" THEN SCALES[GENRE_DEFAULTS[call.genre].scale]
    ELSE IF call.scale \in DOMAIN SCALES THEN SCALES[call.scale] ELSE SCALES["minor"]

\* Every pitch of the call's list and of its written events is the root
\* plus an interval of the selected scale plus whole octaves, and when the
\* scale is dorian on A# its pitch class is one of classes (C = 0)
InScale(call, classes) ==
    LET root == IF call.key \in DOMAIN NOTES THEN NOTES[call.key] ELSE 65
        ivs  == SelectedScale(call)
        Ok(pitch) ==
            /\ \E j \in 1..Len(ivs), k \in 0..10 : pitch = root + ivs[j] + 12 * k
            /\ (call.key = "A#" /\ ivs = SCALES["dorian"]) => (pitch % 12) \in classes
    IN  /\ \A i \in 1..Len(call.notes) : Ok(call.notes[i][2])
        /\ \A i \in 1..Len(call.written) : Ok(call.written[i][2])

\* C17 (scale membership), as the code has it: every pitch of a generated
\* melody is root + interval + 12*k for an interval of the selected scale
\* and an octave k >= 0, also after the repeat-previous-pitch,
\* octave-promotion and final-root steps; for rnb / A# / dorian the pitch
\* classes are {A#, C, C#, D#, F, G, G#}.
C17_ScaleMembership ==
    (genCall.done /\ genCall.fn \in {"melody_gen.generate", "_gen_melody"}) =>
        InScale(genCall, {10, 0, 1, 3, 5, 7, 8})

\* C17 as stated: the same, with the pitch classes {A#, C, C#, D#, F, G, A}
\* for rnb / A# / dorian.
C17_ScaleMembershipAsStated ==
    (genCall.done /\ genCall.fn \in {"melody_gen.generate", "_gen_melody"}) =>
        InScale(genCall, {10, 0, 1, 3, 5, 7, 9})

\* _gen_melody has written an rnb melody in A# (dorian) that holds a G#, a
\* pitch in the top octave of the scale, and the final root note
C17_Witness ==
    /\ genCall.done /\ genCall.fn = "_gen_melody"
    /\ genCall.genre = "rnb" /\ genCall.key = "A#"
    /\ \E i, j \in 1..Len(genCall.written) :
         /\ genCall.written[i][2] % 12 = 8
         /\ genCall.written[j][2] >= NOTES["A#"] + 24
    /\ genCall.written[Len(genCall.written)][2] = NOTES["A#"] + 12

\* The names of the five genres
GenreNames == { GENRES[i] : i \in 1..Len(GENRES) }

\* C19 (genre fallback): every entry point resolves its genre input to one
\* of trap, drill, hip hop, rnb, melodic, and an input that is not the name
\* of one of the five is resolved to trap, for generation and for what is
\* recorded about the pattern.
C19_GenreFallback ==
    entryCall.done =>
        /\ entryCall.genre \in GenreNames
        /\ entryCall.recorded \in GenreNames
        /\ LOWER(entryCall.genre_in) \notin GenreNames =>
              (entryCall.genre = "trap" /\ entryCall.recorded = "trap")

\* MIDI GEN was given "e", which names no genre, and went on with melodic
C19_Witness ==
    /\ entryCall.done /\ entryCall.fn = "midi_gen.run"
    /\ entryCall.genre_in = "e"
    /\ entryCall.genre = "melodic" /\ entryCall.recorded = "melodic"

\* C20 (BPM fallback): at the GUI field and at the generator, MIDI Gen and
\* Drum Build prompts, a BPM input that is not a number or lies outside
\* 40..300 is replaced by the BPM of the selected genre.
C20_BpmFallback ==
    (entryCall.done /\ entryCall.fn \in {"app", "generator.run", "midi_gen.run", "drum_build.run"}) =>
        ((\/ entryCall.bpm_in \notin DOMAIN NumberOf
          \/ NumberOf[entryCall.bpm_in] < 40
          \/ NumberOf[entryCall.bpm_in] > 300)
            => entryCall.bpm = BPM_MAP[entryCall.genre])

\* The generator was answered 0 at its BPM prompt and went on with 0
C20_Witness ==
    /\ entryCall.done /\ entryCall.fn = "generator.run"
    /\ entryCall.bpm_in = "0"
    /\ entryCall.bpm = 0

\* C21 (positive durations): every note a melody generator produces has a
\* duration above 0, the final root note of the seeded generator included,
\* and every event written to the MIDI file has the duration of a note of
\* the list with its start, pitch and velocity, or a shorter one.
C21_PositiveDurations ==
    (genCall.done /\ genCall.fn \in {"melody_gen.generate", "_gen_melody"}) =>
        /\ \A i \in 1..Len(genCall.notes) : genCall.notes[i][3] > 0
        /\ \A i \in 1..Len(genCall.written) :
             \E j \in 1..Len(genCall.notes) :
                 /\ genCall.notes[j][1] = genCall.written[i][1]
                 /\ genCall.notes[j][2] = genCall.written[i][2]
                 /\ genCall.written[i][3] <= genCall.notes[j][3]

\* _gen_melody has appended the final root note with a duration of 0, after
\* a note clipped to end 0.01 before the last beat, and has written it with
\* a duration of 0.1
C21_Witness ==
    /\ genCall.done /\ genCall.fn = "_gen_melody"
    /\ LET n == Len(genCall.notes)
       IN  /\ n > 1
           /\ genCall.notes[n][3] = 0
           /\ genCall.notes[n][1] = 4 * genCall.bars * Unit - Unit \div 100
           /\ genCall.notes[n - 1][1] + genCall.notes[n - 1][3] = genCall.notes[n][1]
           /\ \E i \in 1..Len(genCall.written) :
                /\ genCall.written[i][1] = genCall.notes[n][1]
                /\ genCall.written[i][3] = Unit \div 10

\* Notes i < j of a list in the order of starts have the same pitch, no
\* note of that pitch lies between them, and i is still sounding at j
Overlapped(notes, i, j) ==
    /\ i < j
    /\ notes[i][2] = notes[j][2]
    /\ \A k \in (i + 1)..(j - 1) : notes[k][2] # notes[i][2]
    /\ notes[j][1] < notes[i][1] + notes[i][3]

Pitched(hits) ==
    { << hits[i][1], (IF hits[i][2] \in DOMAIN GM THEN GM[hits[i][2]] ELSE 38), hits[i][3] >> :
        i \in 1..Len(hits) }

\* C23 (seeded and ambient paths are the same algorithm): given the same
\* genre, key, scale and bars and the same sequence of random draws,
\* _gen_drums produces the hits of drum_gen.generate (which makes two bars)
\* and _gen_melody the notes of melody_gen.generate.
C23_SameAlgorithm ==
    /\ (genCall.done /\ genCall.fn = "_gen_drums" /\ genCall.bars = 2) =>
          { genCall.notes[i] : i \in 1..Len(genCall.notes) } =
              Pitched(generate(genCall.genre, Seeded(genCall.seed)))
    /\ (genCall.done /\ genCall.fn = "_gen_melody") =>
          genCall.notes = melody_generate(genCall.genre, genCall.key,
                                          GENRE_DEFAULTS[genCall.genre].scale, genCall.bars,
                                          Seeded(genCall.seed))

\* _gen_drums has made two bars of trap with a hit on a step and pitch
\* where drum_gen.generate, on the same draws, has none, and without a hit
\* that drum_gen.generate has
C23_Witness ==
    /\ genCall.done /\ genCall.fn = "_gen_drums" /\ genCall.bars = 2 /\ genCall.genre = "trap"
    /\ LET seeded  == { genCall.notes[i] : i \in 1..Len(genCall.notes) }
           ambient == Pitched(generate(genCall.genre, Seeded(genCall.seed)))
       IN  /\ \E h \in seeded : \A a \in ambient : << a[1], a[2] >> # << h[1], h[2] >>
           /\ \E a \in ambient : \A h \in seeded : << a[1], a[2] >> # << h[1], h[2] >>

\* The ids of a history are GEN-0001, GEN-0002, ... in order
Consecutive(history) == \A i \in 1..Len(history) : history[i].id = << "GEN", Fmt04(i) >>

\* C24 (generator id space): over runs of the generator one after the
\* other, with any choices, the ids of the history are pairwise distinct
\* and consecutive from GEN-0001, in the file and in the run under way
\* (each new pattern gets the number after those recorded so far); no id is
\* given to two generations, and every entry of the history is the one
\* written for the generation that got its id.
C24_GeneratorIdSpace ==
    /\ Consecutive(load_history(historyFile))
    /\ \A t \in Threads : Consecutive(th[t].history)
    /\ \A g1, g2 \in generated : g1.id = g2.id => g1 = g2
    /\ LET running == { t \in Threads : th[t].pc \in {"drums", "melody", "save_history"} }
           history == IF running = {} THEN load_history(historyFile)
                      ELSE th[CHOOSE t \in running : TRUE].history
       IN  /\ { g.id : g \in generated } = { history[i].id : i \in 1..Len(history) }
           /\ \A i \in 1..Len(history) :
                \E g \in generated :
                    /\ g.id = history[i].id
                    /\ g.pattern = RecallPattern(history[i])

\* A run with choice 3 has given GEN-0001 to its drums and GEN-0002 to its
\* melody, and a later run has recorded a third pattern
C24_Witness ==
    LET history == load_history(historyFile)
    IN  /\ Len(history) = 3
        /\ history[1].type = "drums" /\ history[2].type = "melody"
        /\ history[1].id = << "GEN", Fmt04(1) >> /\ history[2].id = << "GEN", Fmt04(2) >>
        /\ history[3].id = << "GEN", Fmt04(3) >>
        /\ history[3].genre # history[1].genre
        /\ Cardinality(generated) = 3
        /\ \A t \in Threads : th[t].pc = "idle"

\* C25 (bar-2 kick variation): for every genre profile the pool the
\* variable kicks of the second bar (bar index 1) are drawn from is a
\* strict subset of the pool of the first bar.
C25_Bar2KickPool ==
    (genCall.done /\ genCall.fn = "drum_gen.generate") =>
        LET dna == IF genCall.genre \in DOMAIN GENRE_DNA THEN GENRE_DNA[genCall.genre]
                   ELSE GENRE_DNA["trap"]
        IN  /\ Range(KickPool(dna.kick, 1)) \subseteq Range(KickPool(dna.kick, 0))
            /\ Range(KickPool(dna.kick, 1)) # Range(KickPool(dna.kick, 0))

\* generate has made two bars of trap, with variable kicks in the second,
\* from the same pool for both bars
C25_Witness ==
    /\ genCall.done /\ genCall.fn = "drum_gen.generate" /\ genCall.genre = "trap"
    /\ KickPool(GENRE_DNA["trap"].kick, 1) = KickPool(GENRE_DNA["trap"].kick, 0)
    /\ \E i \in 1..Len(genCall.notes) :
         /\ genCall.notes[i][2] = "kick"
         /\ genCall.notes[i][1] - 16 \in Range(KickPool(GENRE_DNA["trap"].kick, 1))

\* C26 (input hook restoration): for every interleaving of mode runs in
\* worker threads, once every run that was started has finished,
\* builtins.input is the function that was installed before the first run.
C26_InputRestored ==
    (\A t \in Threads : ~Busy(t)) => builtinsInput = RealInput

\* Two runs have been started and both have finished, and builtins.input
\* is the lambda one of them installed
C26_Witness ==
    /\ started = 2
    /\ \A t \in Threads : ~Busy(t)
    /\ builtinsInput.kind # "real"
    /\ Cardinality(midiFiles) >= 1

\* C27 (generation terminates): for every genre, bar count B >= 0 and
\* sequence of draws, each drum and melody generation leaves its loop; the
\* loop of the seeded melody makes at most 17 * B passes, each of which
\* moves the beat cursor on by at least 0.24 beats; the drum loops make B
\* passes (drum_gen.generate two) and the loop of melody_gen.generate at
\* most one pass per index of the contour.
C27_Terminates ==
    /\ <>(loopCall.done)
    /\ [](/\ loopCall.fn = "_gen_melody" => loopCall.iters <= 17 * loopCall.bars
          /\ loopCall.fn \in {"_gen_drums", "drum_gen.generate"} => loopCall.iters <= loopCall.bars
          /\ loopCall.fn = "melody_gen.generate" => loopCall.iters <= Len(loopCall.indices))
    /\ [][(loopCall.fn = "_gen_melody" /\ loopCall.begun /\ ~loopCall'.done)
            => (loopCall'.beat >= loopCall.beat + (24 * Unit) \div 100)]_vars

\* The loop of _gen_melody has been left after more passes than there are
\* quarter beats in half the bars, with the notes of _gen_melody as its result
C27_Witness ==
    /\ loopCall.done /\ loopCall.fn = "_gen_melody" /\ loopCall.bars = 4
    /\ loopCall.iters > 2 * loopCall.bars
    /\ loopCall.beat >= 4 * loopCall.bars * Unit - Unit \div 4
    /\ loopCall.notes = gen_melody_notes(loopCall.rand.seed, loopCall.genre, loopCall.key,
                                         loopCall.bars)

\* C28 (returned id matches the returned pattern): when drum_gen.run or
\* melody_gen.run has returned, on whichever path (new at once, repeat then
\* new, repeat then repeat), the file written is named after the id
\* returned, and the catalog entry with that id has the fingerprint of the
\* hits or notes that were returned and written to the file.
C28_ReturnedIdMatches ==
    (lastRun.mode # "") =>
        /\ lastRun.path = MidiName(lastRun.entry.id)
        /\ \E f \in midiFiles :
             /\ f.name = lastRun.path
             /\ f.pattern.rand = lastRun.rands[Len(lastRun.rands)]
             /\ \E i \in 1..Len(load(catalogFile)) :
                  /\ load(catalogFile)[i].id = lastRun.entry.id
                  /\ load(catalogFile)[i].fingerprint = fingerprint(NotesOf(f.pattern))

\* A run has returned after two repeats: the id of the entry catalogued
\* by an earlier run, for hits that are not the hits of that run
C28_Witness ==
    /\ lastRun.mode # ""
    /\ Len(lastRun.rets) = 2
    /\ lastRun.rets[1].repeat /\ lastRun.rets[2].repeat
    /\ Len(load(catalogFile)) >= 2
    /\ \E f \in midiFiles : f.name = lastRun.path /\ f.pattern.rand = lastRun.rands[2]
    /\ \E a \in assigned :
         /\ a.id = lastRun.entry.id
         /\ a.pattern.rand # lastRun.rands[2]

\* C29 (no shared id under interleaving): registrations of different
\* fingerprints are never returned the same id, however the load, lookup,
\* id-assignment and save steps of two concurrent register() calls
\* interleave, and so no run writes its pattern over the <id>.mid file that
\* holds a pattern with another fingerprint.
C29_NoSharedId ==
    [][/\ \A a, b \in assigned' : (a.fp # b.fp) => (a.id # b.id)
       /\ \A f \in midiFiles : \A g \in midiFiles' :
            (f.name = g.name /\ \E a \in assigned : f.name = MidiName(a.id))
                => fingerprint(NotesOf(f.pattern)) = fingerprint(NotesOf(g.pattern))]_vars

\* Two runs that overlapped have both ended: each was returned the same id
\* as a new entry for its own fingerprint, both wrote <id>.mid, and the
\* file holds the pattern of one of them
C29_Witness ==
    /\ \A t \in Threads : ~Busy(t)
    /\ lastRun.mode # ""
    /\ Len(lastRun.rets) = 1 /\ ~lastRun.rets[1].repeat
    /\ \E a \in assigned :
         /\ a.id = lastRun.entry.id
         /\ a.fp # lastRun.entry.fingerprint
         /\ \E f \in midiFiles :
              /\ f.name = MidiName(a.id)
              /\ fingerprint(NotesOf(f.pattern)) # a.fp

\* The ids the history holds
HistoryIds(history) == { history[i].id : i \in 1..Len(history) }

\* C30 (recall is read-only on the history): no step of a run of the
\* generator with choice 4 changes the persisted history or gives out a
\* new id; the recall itself writes either nothing (empty history, id
\* not in the history) or the one file of an entry of the history it has
\* loaded, and it is recorded only for ids of that history.
C30_RecallReadOnly ==
    [][\A t \in Threads :
          /\ (th'[t].pc = "recall" /\ th[t].pc # "recall")
                => (historyFile' = historyFile /\ generated' = generated /\ midiFiles' = midiFiles)
          /\ (th[t].pc = "recall" /\ th'[t].pc # "recall")
                => (/\ historyFile' = historyFile
                    /\ generated' = generated
                    /\ th[t].history = << >> => (midiFiles' = midiFiles /\ recalled' = recalled)
                    /\ \A r \in recalled' \ recalled : r.id \in HistoryIds(th[t].history)
                    /\ \/ (midiFiles' = midiFiles /\ recalled' = recalled)
                       \/ \E i \in 1..Len(th[t].history) :
                            /\ midiFiles' = WriteFile(midiFiles, RecallName(th[t].history[i]),
                                                      RecallPattern(th[t].history[i]))
                            /\ \E r \in recalled' : r.id = th[t].history[i].id)]_vars

\* Recalls have been run after generations and all runs have ended: a
\* stored id has been recalled, and the history file holds exactly the
\* ids that the generations were given
C30_Witness ==
    /\ \A t \in Threads : ~Busy(t)
    /\ started = MaxRuns
    /\ recalled # {}
    /\ \A r \in recalled : r.id \in HistoryIds(load_history(historyFile))
    /\ HistoryIds(load_history(historyFile)) = { g.id : g \in generated }
    /\ Len(load_history(historyFile)) = 2

====
